---- MODULE Spec2Model ----
(***************************************************************************)
(* ps3netsrv-go: one connection of the server (pkg/server), its session    *)
(* state (internal/handler), the wire codec (pkg/proto) and the filesystem *)
(* port (pkg/fs) over a host directory tree.                               *)
(*                                                                         *)
(* Paths are sequences of components, a component is a sequence of         *)
(* characters, so that string operations of the code (strings.HasPrefix,   *)
(* filepath.Clean, filepath.Join) are computed as the code computes them.  *)
(***************************************************************************)
EXTENDS Integers, Sequences, FiniteSets, TLC

(***************************************************************************)
(* Bounds of the model.                                                    *)
(***************************************************************************)
\* number of command frames the client sends on the connection
MaxCmds == 3
\* number of command frames the client may have in flight (sent, not yet read)
MaxPipe == 1
\* number of times the host fails Stat on a file just opened (SpecFaults)
MaxFaults == 1

(***************************************************************************)
(* Component names.  RootName is the last component of the configured      *)
(* root; SiblingName is a directory next to the root whose name extends    *)
(* the root's name (root "/r", sibling "/r2").                             *)
(***************************************************************************)
RootName == <<"r">>
SiblingName == <<"r", "2">>
NameA == <<"a">>
NameB == <<"b">>
NameN == <<"n">>
DotDot == <<".", ".">>
CloseFileName == <<"C", "L", "O", "S", "E", "F", "I", "L", "E">>

\* the configured root of the server (RelaxedSystemRoot.path), "/r"
RootPath == <<RootName>>

(***************************************************************************)
(* Generic helpers.                                                        *)
(***************************************************************************)
NULL == 0

Min(a, b) == IF a < b THEN a ELSE b

Max(a, b) == IF a > b THEN a ELSE b

IsPrefixSeq(p, s) == Len(p) <= Len(s) /\ SubSeq(s, 1, Len(p)) = p

Front(s) == SubSeq(s, 1, Len(s) - 1)

Last(s) == s[Len(s)]

(***************************************************************************)
(* Client paths: [abs |-> leading separator, comps |-> components].        *)
(***************************************************************************)
ClientPath(abs, comps) == [abs |-> abs, comps |-> comps]

\* filepath.Clean on the components: ".." removes the component before it;
\* at the top of a rooted path it is dropped, at the top of a relative path
\* it is kept.
RECURSIVE CleanComps(_, _, _)
CleanComps(abs, todo, acc) ==
    IF todo = <<>> THEN acc
    ELSE LET c == Head(todo) IN
         IF c = DotDot
         THEN IF acc # <<>> /\ Last(acc) # DotDot
              THEN CleanComps(abs, Tail(todo), Front(acc))
              ELSE IF abs
                   THEN CleanComps(abs, Tail(todo), acc)
                   ELSE CleanComps(abs, Tail(todo), Append(acc, c))
         ELSE CleanComps(abs, Tail(todo), Append(acc, c))

Clean(p) == [abs |-> p.abs, comps |-> CleanComps(p.abs, p.comps, <<>>)]

\* filepath.Split: the file part is the last component ("" when there is none)
BaseName(p) == IF p.comps = <<>> THEN <<>> ELSE Last(p.comps)

\* strings.TrimPrefix(name, string(filepath.Separator))
TrimSeparator(p) == [abs |-> FALSE, comps |-> p.comps]

\* the string of a rooted path: "/" c1 "/" c2 ... ("/" for the empty path)
RECURSIVE PathString(_)
PathString(comps) ==
    IF comps = <<>> THEN <<"/">>
    ELSE IF Len(comps) = 1 THEN <<"/">> \o comps[1]
    ELSE PathString(Front(comps)) \o <<"/">> \o Last(comps)

\* strings.HasPrefix(path, bpath) on the two path strings
HasPrefix(path, bpath) == IsPrefixSeq(PathString(bpath), PathString(path))

\* RelaxedSystemRoot.realPath: [ok, path]; not ok is os.ErrNotExist
realPath(name) ==
    LET bpath == CleanComps(TRUE, RootPath, <<>>)
        path  == CleanComps(TRUE, bpath \o name.comps, <<>>)
    IN  IF ~HasPrefix(path, bpath)
        THEN [ok |-> FALSE, path |-> name.comps]
        ELSE [ok |-> TRUE, path |-> path]

(***************************************************************************)
(* Wire protocol: opcodes (pkg/proto/types.go) and command frames.         *)
(***************************************************************************)
CmdOpenFile == 4644
CmdReadFileCritical == 4645
CmdReadCD2048Critical == 4646
CmdReadFile == 4647
CmdCreateFile == 4648
CmdWriteFile == 4649
CmdOpenDir == 4650
CmdReadDirEntry == 4651
CmdDeleteFile == 4652
CmdMkdir == 4653
CmdRmdir == 4654
CmdReadDirEntryV2 == 4655
CmdStatFile == 4656
CmdGetDirSize == 4657
CmdReadDir == 4658
CmdCustom0 == 9234

\* the opcodes handleCommand dispatches on
KnownOpCodes ==
    {CmdOpenDir, CmdReadDir, CmdStatFile, CmdOpenFile, CmdReadFile,
     CmdReadFileCritical, CmdReadCD2048Critical, CmdReadDirEntry,
     CmdReadDirEntryV2, CmdCreateFile, CmdWriteFile, CmdDeleteFile, CmdMkdir,
     CmdRmdir, CmdGetDirSize}

NoPath == ClientPath(FALSE, <<>>)

\* A command as the client sends it.  path: the follow-up path; a, b: the
\* two numeric fields of the body in wire order; hi: bit 63 of a 64-bit
\* offset (int64(offset) is negative exactly when it is set); data: the
\* follow-up payload of WRITE_FILE, of which a is the declared length.
Command(op, path, a, b, hi, data) ==
    [op |-> op, path |-> path, a |-> a, b |-> b, hi |-> hi, data |-> data]

PathCommand(op, path) == Command(op, path, 0, 0, FALSE, <<>>)

PlainCommand(op) == Command(op, NoPath, 0, 0, FALSE, <<>>)

ReadCommandOf(op, limit, off, hi) == Command(op, NoPath, limit, off, hi, <<>>)

WriteCommand(data) == Command(CmdWriteFile, NoPath, Len(data), 0, FALSE, data)

(***************************************************************************)
(* Host filesystem.  disk maps each existing absolute path to its inode,   *)
(* inodes holds each inode's kind and bytes; an open handle refers to the  *)
(* inode, so it outlives the removal of the path.                          *)
(***************************************************************************)
VARIABLES
    allowWrite,     \* Handler.AllowWrite
    faults,         \* failures of Stat on an open file the host may still cause
    disk,           \* existing path -> inode
    inodes,         \* inode -> [dir, data]
    handles,        \* every file handle the session ever opened
    State,          \* handler.State: CwdHandle, ROFile, WOFile, CDSectorSize
    pc,             \* position of serveConn
    cur,            \* the command frame read last (Reader.cmd)
    inbuf,          \* bytes sent by the client and not yet read
    clientOpen,     \* the client has not closed its side
    sent,           \* command frames the client has sent
    script,         \* leading frames sent that follow ScriptCreateWrite
    nread,          \* command frames ReadCommand has returned
    done,           \* command frames whose handler has returned
    wire,           \* everything written to the socket, in order
    sockClosed,     \* conn.Close() has run
    touched,        \* paths outside the root handed to a host call
    viso,           \* a VirtualISO under test: its layout, offset, isClosed
    iso3k3y,        \* an ISO3k3y overlay under test: its offset
    ret,            \* what the last call on viso or iso3k3y returned
    eiso,           \* an EncryptedISO under test
    payload,        \* the payload files a VirtualISO under test has opened
    peer,           \* a second connection served by the same process
    scan            \* a VirtualISO.scanDirectory under way

\* the variables of the connection
connVars ==
    <<allowWrite, faults, disk, inodes, handles, State, pc, cur, inbuf,
      clientOpen, sent, script, nread, done, wire, sockClosed, touched>>

\* the variables of the file objects of pkg/fs exercised on their own and of
\* the second connection
fileVars == <<viso, iso3k3y, ret, eiso, payload, peer, scan>>

vars == <<connVars, fileVars>>

\* the order in which the host lists directory entries
ListingOrder ==
    <<NameA, NameB, NameN, RootName, SiblingName,
      <<"G", "A", "M", "E", "1">>, <<"P", "S", "3", "I", "S", "O">>,
      <<"P", "S", "3", "_", "G", "A", "M", "E">>,
      <<"P", "A", "R", "A", "M", ".", "S", "F", "O">>,
      <<"R", "E", "D", "K", "E", "Y">>>>

FileInode(data) == [dir |-> FALSE, data |-> data]

DirInode == [dir |-> TRUE, data |-> <<>>]

\* what fs.FileInfo reports: Size(), IsDir(), ModTime().Unix(), Name()
FileInfo(ino, name) ==
    [size |-> Len(ino.data), isDir |-> ino.dir, mtime |-> 1, name |-> name]

\* the filesystem part of the world handed through the operations:
\* D disk, I inodes, H handles, T touched
World(D, I, H, T) == [D |-> D, I |-> I, H |-> H, T |-> T]

InsideRoot(path) == IsPrefixSeq(RootPath, path)

\* a host call on path: remembered when the path lies outside the root
Touch(w, path) ==
    IF InsideRoot(path) THEN w ELSE [w EXCEPT !.T = @ \cup {path}]

ParentIsDir(w, path) ==
    \/ Len(path) <= 1
    \/ /\ Front(path) \in DOMAIN w.D
       /\ w.I[w.D[Front(path)]].dir

HasChildren(w, path) ==
    \E q \in DOMAIN w.D : Len(q) = Len(path) + 1 /\ Front(q) = path

\* names of the entries of the directory at path, in listing order
Listing(D, path) ==
    SelectSeq(ListingOrder, LAMBDA n : Append(path, n) \in DOMAIN D)

NewHandle(ino, name) ==
    [ino |-> ino, name |-> name, open |-> TRUE, closes |-> 0, pos |-> 0,
     listed |-> FALSE, ents |-> <<>>, wrap |-> <<>>, key |-> <<>>,
     viso |-> NULL]

\* os.File.Close
CloseHandle(H, h) == [H EXCEPT ![h].open = FALSE, ![h].closes = @ + 1]

\* os.Open: [ok, h, w]
osOpen(w, path) ==
    LET w1 == Touch(w, path) IN
    IF path \in DOMAIN w1.D
    THEN [ok |-> TRUE, h |-> Len(w1.H) + 1,
          w |-> [w1 EXCEPT !.H = Append(@, NewHandle(w1.D[path], path))]]
    ELSE [ok |-> FALSE, h |-> NULL, w |-> w1]

\* os.Stat: [ok, info, w]
osStat(w, path) ==
    LET w1 == Touch(w, path) IN
    IF path \in DOMAIN w1.D
    THEN [ok |-> TRUE, info |-> FileInfo(w1.I[w1.D[path]], Last(path)), w |-> w1]
    ELSE [ok |-> FALSE, info |-> FileInfo(DirInode, <<>>), w |-> w1]

\* os.Create (O_RDWR|O_CREATE|O_TRUNC): [ok, h, w]
osCreate(w, path) ==
    LET w1 == Touch(w, path) IN
    IF path \in DOMAIN w1.D
    THEN IF w1.I[w1.D[path]].dir
         THEN [ok |-> FALSE, h |-> NULL, w |-> w1]
         ELSE [ok |-> TRUE, h |-> Len(w1.H) + 1,
               w |-> [w1 EXCEPT !.I[w1.D[path]].data = <<>>,
                                !.H = Append(@, NewHandle(w1.D[path], path))]]
    ELSE IF path # <<>> /\ ParentIsDir(w1, path)
         THEN LET ino == Len(w1.I) + 1 IN
              [ok |-> TRUE, h |-> Len(w1.H) + 1,
               w |-> [w1 EXCEPT !.I = Append(@, FileInode(<<>>)),
                                !.D = (path :> ino) @@ @,
                                !.H = Append(@, NewHandle(ino, path))]]
         ELSE [ok |-> FALSE, h |-> NULL, w |-> w1]

\* os.Remove (unlink, or rmdir of an empty directory): [ok, w]
osRemove(w, path) ==
    LET w1 == Touch(w, path) IN
    IF path \in DOMAIN w1.D /\ ~(w1.I[w1.D[path]].dir /\ HasChildren(w1, path))
    THEN [ok |-> TRUE,
          w |-> [w1 EXCEPT !.D = [q \in (DOMAIN w1.D) \ {path} |-> w1.D[q]]]]
    ELSE [ok |-> FALSE, w |-> w1]

\* os.Mkdir: [ok, w]
osMkdir(w, path) ==
    LET w1 == Touch(w, path) IN
    IF path \notin DOMAIN w1.D /\ path # <<>> /\ ParentIsDir(w1, path)
    THEN [ok |-> TRUE,
          w |-> [w1 EXCEPT !.I = Append(@, DirInode),
                           !.D = (path :> (Len(w1.I) + 1)) @@ @]]
    ELSE [ok |-> FALSE, w |-> w1]

(***************************************************************************)
(* RelaxedSystemRoot: realPath, then the host call.                        *)
(***************************************************************************)
rootOpen(w, name) ==
    LET rp == realPath(name) IN
    IF rp.ok THEN osOpen(w, rp.path) ELSE [ok |-> FALSE, h |-> NULL, w |-> w]

rootCreate(w, name) ==
    LET rp == realPath(name) IN
    IF rp.ok THEN osCreate(w, rp.path) ELSE [ok |-> FALSE, h |-> NULL, w |-> w]

rootStat(w, name) ==
    LET rp == realPath(name) IN
    IF rp.ok THEN osStat(w, rp.path)
    ELSE [ok |-> FALSE, info |-> FileInfo(DirInode, <<>>), w |-> w]

rootRemove(w, name) ==
    LET rp == realPath(name) IN
    IF rp.ok THEN osRemove(w, rp.path) ELSE [ok |-> FALSE, w |-> w]

rootMkdir(w, name) ==
    LET rp == realPath(name) IN
    IF rp.ok THEN osMkdir(w, rp.path) ELSE [ok |-> FALSE, w |-> w]

\* What the host does to a session's open: nothing, or a failure of Stat on
\* the file just opened, inside FS.Open or inside the handler.
FaultNone == "none"

FaultFsStat == "fs.stat"

FaultStat == "stat"

(***************************************************************************)
(* pkg/fs, the virtual ISO (virtual_iso.go): a VirtualISO is built over a  *)
(* host directory tree and then read, sought and closed.                   *)
(*                                                                         *)
(* A sizeBytes (int64) is held as [s, b], the count s * sectorSize + b     *)
(* with 0 <= b < sectorSize, so that sizes of 4 GiB and more stay within   *)
(* 32-bit arithmetic; a sizeSectors (int32) is an integer.                 *)
(***************************************************************************)
sectorSize == 2048

sizeBytes(s, b) == [s |-> s + (b \div sectorSize), b |-> b % sectorSize]

\* sizeBytes(n) of a small integer n
bytesOf(n) == sizeBytes(0, n)

\* the integer of a small sizeBytes
intOf(x) == x.s * sectorSize + x.b

bAdd(x, y) == sizeBytes(x.s + y.s, x.b + y.b)

bSub(x, y) == sizeBytes(x.s - y.s, x.b - y.b)

bLess(x, y) == x.s < y.s \/ (x.s = y.s /\ x.b < y.b)

bMin(x, y) == IF bLess(x, y) THEN x ELSE y

\* sizeSectors.bytes
sectorsBytes(n) == sizeBytes(n, 0)

\* sizeBytes.sectors: the sectors the bytes occupy (ceil)
sectors(x) == IF x.b > 0 THEN x.s + 1 ELSE x.s

systemAreaSize == sizeBytes(16, 0)

volumeDescriptorsCount == 3

basePadSectors == 32

\* 0xFFFFF800
multiExtentPartSize == sizeBytes(2097151, 0)

\* 0xFFFFFFFF
maxPartSize == sizeBytes(2097151, 2047)

dirFlagMultiExtent == 128

\* sizes of the files of the host trees
FileSizes ==
    {bytesOf(0), bytesOf(2048), bytesOf(2049), maxPartSize, sizeBytes(2097152, 0)}

\* number of files of a host tree, at most
MaxFiles == 2

\* number of directories of a host tree (the root included), at most
MaxDirs == 2

\* A host tree as scanDirectory meets it: the number of its directories and
\* the sizes of its files in the order of the scan.
Trees ==
    {[dirs |-> d, sizes |-> ss] :
        d \in 1..MaxDirs,
        ss \in UNION {[1..n -> FileSizes] : n \in 0..MaxFiles}}

\* the byte at offset s * sectorSize + b of the k-th file of the host tree: a
\* value of 1..255 that differs from byte to byte and from file to file
HostByte(k, s, b) == ((k * 31 + (s % 255) * 8 + b) % 255) + 1

\* a byte of the encoded filesystem structures (fsBuf), whose content is
\* not modelled
fsBufByte == -1

\* VirtualISO.scanDirectory: the files with their relative addresses
RECURSIVE scanDirectory(_, _, _)
scanDirectory(sizes, files, filesSizeSectors) ==
    IF Len(files) = Len(sizes) THEN files
    ELSE LET size == sizes[Len(files) + 1] IN
         scanDirectory(sizes,
                       Append(files, [host |-> Len(files) + 1, size |-> size,
                                      rLBA |-> filesSizeSectors]),
                       filesSizeSectors + sectors(size))

\* the number of directory records of a file
extentParts(size) ==
    IF bLess(maxPartSize, size)
    THEN (size.s \div multiExtentPartSize.s)
         + (IF size.s % multiExtentPartSize.s > 0 \/ size.b > 0 THEN 1 ELSE 0)
    ELSE 1

\* directory records that split a file as soon as it reaches maxPartSize
makeDirEntriesEarlySplit(fileItem) ==
    LET parts == IF bLess(fileItem.size, maxPartSize) THEN 1 ELSE 2 IN
    [i \in 1..parts |->
        [ExtentLocation |-> fileItem.rLBA + (i - 1) * sectors(multiExtentPartSize),
         ExtentLength |-> IF parts = 1 THEN fileItem.size
                          ELSE IF i = parts
                               THEN bSub(fileItem.size, sizeBytes((i - 1) * multiExtentPartSize.s, 0))
                               ELSE multiExtentPartSize,
         FileFlags |-> IF parts # 1 /\ i # parts THEN dirFlagMultiExtent ELSE 0]]

\* VirtualISO.makeDirEntries, the records of one file
makeDirEntries(fileItem) ==
    LET parts == extentParts(fileItem.size) IN
    [i \in 1..parts |->
        [ExtentLocation |-> fileItem.rLBA + (i - 1) * sectors(multiExtentPartSize),
         ExtentLength |-> IF parts = 1 THEN fileItem.size
                          ELSE IF i = parts
                               THEN bSub(fileItem.size, sizeBytes((i - 1) * multiExtentPartSize.s, 0))
                               ELSE multiExtentPartSize,
         FileFlags |-> IF parts # 1 /\ i # parts THEN dirFlagMultiExtent ELSE 0]]

\* sizes that pad every volume by basePadSectors
calculateSizesFixedPad(filesLBA, filesSizeSectors) ==
    LET volumeSize == filesLBA + filesSizeSectors IN
    [volumeSizeSectors |-> volumeSize + basePadSectors,
     totalSize |-> sectorsBytes(volumeSize + basePadSectors),
     padAreaStart |-> sectorsBytes(volumeSize),
     padAreaSize |-> sectorsBytes(basePadSectors)]

\* VirtualISO.calculateSizes
calculateSizes(filesLBA, filesSizeSectors) ==
    LET volumeSize == filesLBA + filesSizeSectors
        extraPad == volumeSize % basePadSectors
        padSectors == IF extraPad > 0
                      THEN basePadSectors + (basePadSectors - extraPad)
                      ELSE basePadSectors
        volumeSizeWithPad == volumeSize + padSectors
    IN  [volumeSizeSectors |-> volumeSizeWithPad,
         totalSize |-> sectorsBytes(volumeSizeWithPad),
         padAreaStart |-> sectorsBytes(volumeSize),
         padAreaSize |-> sectorsBytes(padSectors)]

\* dirItemList.fixLBA: the addresses of the files and of their records are
\* shifted by the size of the structures
fixLBA(items, filesLBA) ==
    [i \in DOMAIN items |-> [items[i] EXCEPT !.rLBA = @ + filesLBA]]

fixDirLBA(entries, filesLBA) ==
    [i \in DOMAIN entries |-> [entries[i] EXCEPT !.ExtentLocation = @ + filesLBA]]

\* VirtualISO.buildFSStructures on the scanned files.  The path tables and
\* the records of each directory fit one sector each.
buildFSStructures(dirs, files, filesSizeSectors) ==
    LET isoLBA == sectors(systemAreaSize) + volumeDescriptorsCount + 1
                  + 1 * 2 + 1 * 2
        jolietLBA == isoLBA + dirs
        filesLBA == jolietLBA + dirs
    IN  calculateSizes(filesLBA, filesSizeSectors)
        @@ [filesSizeSectors |-> filesSizeSectors,
            fsBufSize |-> sectorsBytes(filesLBA),
            files |-> fixLBA(files, filesLBA),
            dirEntry |-> [i \in DOMAIN files |->
                            fixDirLBA(makeDirEntries(files[i]), filesLBA)],
            offset |-> bytesOf(0),
            isClosed |-> FALSE]

\* NewVirtualISO over a host tree
NewVirtualISO(tree) ==
    LET files == scanDirectory(tree.sizes, <<>>, 0) IN
    buildFSStructures(tree.dirs, files,
                      IF files = <<>> THEN 0
                      ELSE Last(files).rLBA + sectors(Last(files).size))

\* n zero bytes
zeroes(n) == [i \in 1..n |-> 0]

\* dirItemList.filesToRead on the flat list of files: the indices of the
\* file whose sectors hold offset and of the files after it that toRead
\* bytes reach
RECURSIVE filesAfter(_, _, _)
filesAfter(files, j, toRead) ==
    IF j > Len(files) \/ ~bLess(bytesOf(0), toRead) THEN <<>>
    ELSE <<j>> \o filesAfter(files, j + 1,
                             bSub(toRead, sectorsBytes(sectors(files[j].size))))

filesToRead(files, toRead, offset) ==
    LET offsetSectors == sectors(offset)
        found == {j \in DOMAIN files :
                    /\ offsetSectors >= files[j].rLBA
                    /\ offsetSectors < files[j].rLBA + sectors(files[j].size)}
    IN  IF found = {} THEN <<>>
        ELSE LET j == CHOOSE k \in found : \A m \in found : k <= m
                 read == bSub(sectorsBytes(sectors(files[j].size)),
                              bSub(offset, sectorsBytes(files[j].rLBA)))
             IN  <<j>> \o filesAfter(files, j + 1, bSub(toRead, read))

\* The progress of VirtualISO.read: data, the bytes copied to buf so far;
\* room, the length of what is left of buf; remain and offset as in the
\* code; stop, read has returned; crash, it has panicked.
readState(data, room, remain, offset, err, stop, crash) ==
    [data |-> data, room |-> room, remain |-> remain, offset |-> offset,
     err |-> err, stop |-> stop, crash |-> crash]

\* read: the direct read from fsBuf
readBuffer(V, n, off) ==
    LET written == IF bLess(off, V.fsBufSize)
                   THEN intOf(bSub(bMin(bAdd(off, bytesOf(n)), V.fsBufSize), off))
                   ELSE 0
        offset == bAdd(off, bytesOf(written))
    IN  readState([i \in 1..written |-> fsBufByte], n - written, n - written,
                  offset, "nil",
                  ~bLess(offset, V.totalSize) \/ n - written = 0, FALSE)

\* a read that leaves the bytes after the last byte of a file alone
readFillNone(fileItem, st) == st

\* read: the zero bytes after the last byte of a file
readFill(fileItem, st) ==
    IF fileItem.size.b > 0 /\ st.remain > 0
    THEN LET toWrite == sectorSize - fileItem.size.b
             remain == IF st.remain < toWrite THEN toWrite ELSE st.remain
         IN  IF st.room < toWrite
             THEN [st EXCEPT !.stop = TRUE, !.crash = TRUE]
             ELSE [st EXCEPT !.data = @ \o zeroes(toWrite),
                             !.room = @ - toWrite,
                             !.remain = remain - toWrite,
                             !.offset = bAdd(@, bytesOf(toWrite))]
    ELSE st

\* read: the bytes of one file
readFile(fileItem, st) ==
    LET fileOffset == bSub(st.offset, sectorsBytes(fileItem.rLBA)) IN
    IF bLess(fileOffset, fileItem.size)
    THEN LET n == intOf(bMin(bytesOf(st.remain), bSub(fileItem.size, fileOffset))) IN
         readFill(fileItem,
                  [st EXCEPT !.data = @ \o [i \in 1..n |->
                                 HostByte(fileItem.host, fileOffset.s,
                                          fileOffset.b + i - 1)],
                             !.room = @ - n,
                             !.remain = @ - n,
                             !.offset = bAdd(@, bytesOf(n))])
    ELSE readFill(fileItem, st)

\* read: the loop over the files to read
RECURSIVE readFiles(_, _, _)
readFiles(V, todo, st) ==
    IF todo = <<>> \/ st.stop THEN st
    ELSE LET fileItem == V.files[Head(todo)] IN
         IF \/ bLess(st.offset, sectorsBytes(fileItem.rLBA))
            \/ ~bLess(st.offset,
                      sectorsBytes(fileItem.rLBA + sectors(fileItem.size)))
         THEN [st EXCEPT !.err = "location", !.stop = TRUE]
         ELSE readFiles(V, Tail(todo), readFile(fileItem, st))

\* read: the pad area
readPad(V, st) ==
    IF ~st.stop /\ ~bLess(st.offset, V.padAreaStart) /\ bLess(st.offset, V.totalSize)
    THEN [st EXCEPT !.data = @ \o zeroes(st.remain),
                    !.offset = bAdd(@, bytesOf(st.remain)),
                    !.remain = 0]
    ELSE st

\* what read hands back: [n, err, data, crash]
readResult(st) ==
    [n |-> IF st.crash THEN 0 ELSE Len(st.data), err |-> st.err,
     data |-> IF st.crash THEN <<>> ELSE st.data, crash |-> st.crash]

readFrom(V, st) ==
    IF st.stop \/ ~bLess(st.offset, V.padAreaStart) THEN readPad(V, st)
    ELSE readPad(V, readFiles(V, filesToRead(V.files, bytesOf(st.remain), st.offset), st))

\* a read that answers past the end with no bytes and no error
readSilentEnd(V, n, off) ==
    IF V.isClosed THEN [n |-> 0, err |-> "ErrClosed", data |-> <<>>, crash |-> FALSE]
    ELSE IF ~bLess(off, V.totalSize) \/ n = 0
    THEN [n |-> 0, err |-> "nil", data |-> <<>>, crash |-> FALSE]
    ELSE readResult(readFrom(V, readBuffer(V, n, off)))

\* VirtualISO.read with a buffer of n bytes at offset off: [n, err, data, crash]
read(V, n, off) ==
    IF V.isClosed THEN [n |-> 0, err |-> "ErrClosed", data |-> <<>>, crash |-> FALSE]
    ELSE IF ~bLess(off, V.totalSize) \/ n = 0
    THEN [n |-> 0, err |-> "EOF", data |-> <<>>, crash |-> FALSE]
    ELSE readResult(readFrom(V, readBuffer(V, n, off)))

\* The payload files of a virtual ISO: file[i] is fileItem.file of the i-th
\* file (NULL or the handle), H the handles the host has given out, each
\* with the number of times Close was called on it.
NoPayload(V) ==
    [file |-> [i \in DOMAIN V.files |-> NULL], H |-> <<>>, closeCalls |-> 0]

\* an openOnDemand that opens the file at every call
openOnDemandAgain(P, i) ==
    [P EXCEPT !.file[i] = Len(P.H) + 1,
              !.H = Append(@, [item |-> i, open |-> TRUE, closes |-> 0])]

\* fileItem.openOnDemand
openOnDemand(P, i) ==
    IF P.file[i] # NULL THEN P
    ELSE [P EXCEPT !.file[i] = Len(P.H) + 1,
                   !.H = Append(@, [item |-> i, open |-> TRUE, closes |-> 0])]

\* fileItem.closeOpened
closeOpened(P, i) ==
    IF P.file[i] # NULL
    THEN [P EXCEPT !.H[P.file[i]].open = FALSE, !.H[P.file[i]].closes = @ + 1,
                   !.file[i] = NULL]
    ELSE P

\* read: the files of the loop that openOnDemand is called on, in order
RECURSIVE opensOf(_, _, _)
opensOf(V, todo, st) ==
    IF todo = <<>> \/ st.stop THEN <<>>
    ELSE LET fileItem == V.files[Head(todo)] IN
         IF \/ bLess(st.offset, sectorsBytes(fileItem.rLBA))
            \/ ~bLess(st.offset,
                      sectorsBytes(fileItem.rLBA + sectors(fileItem.size)))
         THEN <<>>
         ELSE <<Head(todo)>> \o opensOf(V, Tail(todo), readFile(fileItem, st))

openedFrom(V, st) ==
    IF st.stop \/ ~bLess(st.offset, V.padAreaStart) THEN <<>>
    ELSE opensOf(V, filesToRead(V.files, bytesOf(st.remain), st.offset), st)

\* VirtualISO.read with a buffer of n bytes at offset off: the files it
\* calls openOnDemand on
readOpens(V, n, off) ==
    IF V.isClosed \/ ~bLess(off, V.totalSize) \/ n = 0 THEN <<>>
    ELSE openedFrom(V, readBuffer(V, n, off))

\* VirtualISO.read: what it leaves of the payload files
RECURSIVE readOpened(_, _)
readOpened(P, items) ==
    IF items = <<>> THEN P
    ELSE readOpened(openOnDemand(P, Head(items)), Tail(items))

\* VirtualISO.Close: the loop over viso.files
RECURSIVE closeFiles(_, _, _)
closeFiles(P, i, n) ==
    IF i > n THEN P ELSE closeFiles(closeOpened(P, i), i + 1, n)

\* VirtualISO.Close: what it leaves of the payload files
VirtualISOClose(V, P) ==
    IF V.isClosed THEN P ELSE closeFiles(P, 1, Len(V.files))

SeekStart == 0

SeekCurrent == 1

SeekEnd == 2

\* VirtualISO.Seek: [pos, err]
Seek(V, offset, whence) ==
    IF V.isClosed THEN [pos |-> bytesOf(0), err |-> "ErrClosed"]
    ELSE IF whence \notin {SeekStart, SeekCurrent, SeekEnd}
    THEN [pos |-> bytesOf(0), err |-> "EINVAL"]
    ELSE LET pos == IF whence = SeekStart THEN offset
                    ELSE IF whence = SeekCurrent THEN bAdd(offset, V.offset)
                    ELSE bSub(bSub(V.totalSize, offset), bytesOf(1))
         IN  IF bLess(pos, bytesOf(0)) \/ bLess(V.totalSize, pos)
             THEN [pos |-> bytesOf(0), err |-> "EINVAL"]
             ELSE [pos |-> pos, err |-> "nil"]

(***************************************************************************)
(* Names and constants of the image wrappers (encrypted_iso.go, fs.go,     *)
(* sfo.go).  A string is a sequence of characters, file content a sequence *)
(* of bytes.                                                               *)
(***************************************************************************)
UpperCase ==
    <<"A", "B", "C", "D", "E", "F", "G", "H", "I", "J", "K", "L", "M",
      "N", "O", "P", "Q", "R", "S", "T", "U", "V", "W", "X", "Y", "Z">>

LowerCase ==
    <<"a", "b", "c", "d", "e", "f", "g", "h", "i", "j", "k", "l", "m",
      "n", "o", "p", "q", "r", "s", "t", "u", "v", "w", "x", "y", "z">>

\* virtualISOMask and virtualPS3ISOMask without their separators
MaskDVD == <<"*", "*", "*", "D", "V", "D", "*", "*", "*">>

MaskPS3 == <<"*", "*", "*", "P", "S", "3", "*", "*", "*">>

encryptionKeySize == 16

isoExt == <<".", "i", "s", "o">>

dkeyExt == <<".", "d", "k", "e", "y">>

ps3isoDir == <<"p", "s", "3", "i", "s", "o">>

redkeyDir == <<"R", "E", "D", "K", "E", "Y">>

\* _3k3yMaskedDataBegin, 0xF70
MaskedDataBegin == 3952

\* _3k3yMaskedDataSize
MaskedDataSize == 256

\* _3k3yMaskedDataEnd, 0x1070
MaskedDataEnd == MaskedDataBegin + MaskedDataSize

\* _3k3yWatermarkSize
WatermarkSize == 16

\* _3k3yEncryptionKeyPlacement, relative to _3k3yMaskedDataBegin
EncryptionKeyPlacement == 16

\* _3k3yDecWatermark, "Encrypted 3K BLD"
DecWatermark ==
    <<69, 110, 99, 114, 121, 112, 116, 101, 100, 32, 51, 75, 32, 66, 76, 68>>

\* _3k3yEncWatermark, "Dncrypted 3K BLD"
EncWatermark ==
    <<68, 110, 99, 114, 121, 112, 116, 101, 100, 32, 51, 75, 32, 66, 76, 68>>

\* sfoMagic, "\x00PSF"
sfoMagic == <<0, 80, 83, 70>>

\* paramSFOPath, PS3_GAME/PARAM.SFO
paramSFOPath ==
    <<<<"P", "S", "3", "_", "G", "A", "M", "E">>,
      <<"P", "A", "R", "A", "M", ".", "S", "F", "O">>>>

\* "TITLE_ID"
TitleIDField == <<84, 73, 84, 76, 69, 95, 73, 68>>

(***************************************************************************)
(* fs.FS, the filesystem port of the handler.  Open hands out the host     *)
(* file, or a wrapper over it: a handle's wrap lists the wrappers from the *)
(* innermost out, its key is the data1 key of an EncryptedISO, its viso    *)
(* the VirtualISO it stands for.                                           *)
(***************************************************************************)
genericFile == "genericFile"

virtualISOFile == "virtualISOFile"

virtualPS3ISOFile == "virtualPS3ISOFile"

\* translatePath: [path, typ]
translatePath(path) ==
    IF path.abs /\ Len(path.comps) >= 2 /\ path.comps[1] = MaskDVD
    THEN [path |-> ClientPath(FALSE, Tail(path.comps)), typ |-> virtualISOFile]
    ELSE IF path.abs /\ Len(path.comps) >= 2 /\ path.comps[1] = MaskPS3
    THEN [path |-> ClientPath(FALSE, Tail(path.comps)), typ |-> virtualPS3ISOFile]
    ELSE [path |-> TrimSeparator(path), typ |-> genericFile]

\* strings.ToLower
ToLower(s) ==
    [i \in DOMAIN s |->
        IF \E k \in DOMAIN UpperCase : UpperCase[k] = s[i]
        THEN LowerCase[CHOOSE k \in DOMAIN UpperCase : UpperCase[k] = s[i]]
        ELSE s[i]]

\* filepath.Ext: the suffix of the last component from its final dot on
Ext(path) ==
    LET name == BaseName(path)
        dots == {i \in DOMAIN name : name[i] = "."}
    IN  IF dots = {} THEN <<>>
        ELSE SubSeq(name, CHOOSE i \in dots : \A j \in dots : j <= i, Len(name))

\* the path with the extension ext of its last component replaced by .dkey
WithDkeyExt(comps, ext) ==
    Append(Front(comps),
           SubSeq(Last(comps), 1, Len(Last(comps)) - Len(ext)) \o dkeyExt)

\* a big-endian uint32 at offset off of data
be32(data, off) ==
    ((data[off + 1] * 256 + data[off + 2]) * 256 + data[off + 3]) * 256
    + data[off + 4]

\* a little-endian uint16 and uint32 at offset off of data
le16(data, off) == data[off + 1] + data[off + 2] * 256

le32(data, off) ==
    data[off + 1]
    + (data[off + 2] + (data[off + 3] + data[off + 4] * 256) * 256) * 256

\* the value of a hexadecimal digit, -1 for any other byte
fromHexChar(c) ==
    IF c >= 48 /\ c <= 57 THEN c - 48
    ELSE IF c >= 97 /\ c <= 102 THEN c - 87
    ELSE IF c >= 65 /\ c <= 70 THEN c - 55
    ELSE -1

\* ReadKeyFile on handle h: [ok, key]; the 16 bytes of the key are the first
\* 32 hexadecimal digits of the file
ReadKeyFile(w, h) ==
    LET ino == w.I[w.H[h].ino]
        digits == [i \in 1..Min(Len(ino.data), 2 * encryptionKeySize) |->
                      fromHexChar(ino.data[i])]
    IN  IF \/ ino.dir
           \/ Len(digits) < 2 * encryptionKeySize
           \/ \E i \in DOMAIN digits : digits[i] < 0
        THEN [ok |-> FALSE, key |-> <<>>]
        ELSE [ok |-> TRUE,
              key |-> [i \in 1..encryptionKeySize |->
                          digits[2 * i - 1] * 16 + digits[2 * i]]]

\* Test3k3yImage on the bytes of a file: [err, key]
Test3k3yImage(data) ==
    IF Len(data) < MaskedDataEnd THEN [err |-> "ErrNot3k3y", key |-> <<>>]
    ELSE LET watermark == SubSeq(data, MaskedDataBegin + 1,
                                 MaskedDataBegin + WatermarkSize)
         IN  IF watermark = EncWatermark
             THEN [err |-> "nil",
                   key |-> SubSeq(data,
                                  MaskedDataBegin + EncryptionKeyPlacement + 1,
                                  MaskedDataBegin + EncryptionKeyPlacement
                                      + encryptionKeySize)]
             ELSE IF watermark = DecWatermark
             THEN [err |-> "nil", key |-> <<>>]
             ELSE [err |-> "ErrNot3k3y", key |-> <<>>]

\* region i (from 0) of the region map that follows the 8-byte header
unencryptedRegion(data, i) ==
    [Start |-> be32(data, 8 + 8 * i), End |-> be32(data, 12 + 8 * i)]

\* a NewEncryptedISO that does not compare a region with the one before it
NewEncryptedISOUnordered(data) ==
    IF Len(data) < 8 THEN FALSE
    ELSE LET Count == be32(data, 0) IN
         /\ Len(data) >= 8 + 8 * Count
         /\ Count >= 2
         /\ unencryptedRegion(data, 0).Start = 0
         /\ \A i \in 0..(Count - 1) :
                unencryptedRegion(data, i).End > unencryptedRegion(data, i).Start

\* NewEncryptedISO on the bytes of a file: whether the region header is read
\* and accepted
NewEncryptedISO(data) ==
    IF Len(data) < 8 THEN FALSE
    ELSE LET Count == be32(data, 0) IN
         /\ Len(data) >= 8 + 8 * Count
         /\ Count >= 2
         /\ unencryptedRegion(data, 0).Start = 0
         /\ \A i \in 0..(Count - 1) :
                /\ unencryptedRegion(data, i).End > unencryptedRegion(data, i).Start
                /\ i > 0 => unencryptedRegion(data, i).Start
                                >= unencryptedRegion(data, i - 1).End

\* the bytes of the host file behind the open result o
FileData(o) == o.w.I[o.w.H[o.h].ino].data

\* what an open returns: [ok, h, w], the handle h opened in the world w, or
\* an error
Opened(h, w) == [ok |-> TRUE, h |-> h, w |-> w]

NotOpened(w) == [ok |-> FALSE, h |-> NULL, w |-> w]

\* the open result o with one more wrapper around its file
Wrapped(o, wrapper, key) ==
    [o EXCEPT !.w.H[o.h].wrap = Append(@, wrapper),
              !.w.H[o.h].key = IF key # <<>> THEN key ELSE @]

\* _ = f.Close(); return nil, err
ClosedWithError(o) == NotOpened([o.w EXCEPT !.H = CloseHandle(@, o.h)])

\* FS.Open: ef, err := NewEncryptedISO(f, key, false), f being the open file o
encrypted(o, key) ==
    IF NewEncryptedISO(FileData(o)) THEN Wrapped(o, "EncryptedISO", key)
    ELSE ClosedWithError(o)

\* FS.Open: NewISO3k3y over what was opened so far
over3k3y(o) == IF o.ok THEN Wrapped(o, "ISO3k3y", <<>>) ELSE o

\* FS.Open after Test3k3yImage returned t for the open file o
probed3k3y(o, t) ==
    IF t.err = "nil" /\ t.key # <<>> THEN over3k3y(encrypted(o, t.key))
    ELSE IF t.err = "nil" THEN over3k3y(o)
    ELSE o

\* FS.Open from the 3k3y probe on, o being the regular file just opened
open3k3y(o) == probed3k3y(o, Test3k3yImage(FileData(o)))

\* FS.Open on a path whose extension is not .iso, after root.Open returned
\* o: tryGetRedumpKey answers fs.ErrNotExist for it at once
openedNoKey(o) ==
    IF ~o.ok \/ o.w.I[o.w.H[o.h].ino].dir THEN o ELSE open3k3y(o)

openNoKey(w, path) == openedNoKey(rootOpen(w, path))

\* whether a failed open of path is fs.ErrNotExist: the path left the root,
\* or the host found no such entry; a regular file on the way is ENOTDIR
IsNotExist(w, path) ==
    \/ ~realPath(path).ok
    \/ /\ realPath(path).path \notin DOMAIN w.D
       /\ \A i \in 1..(Len(realPath(path).path) - 1) :
              SubSeq(realPath(path).path, 1, i) \in DOMAIN w.D
                  => w.I[w.D[SubSeq(realPath(path).path, 1, i)]].dir

\* tryGetRedumpKey: defer keyFile.Close(); return ReadKeyFile(keyFile)
keyRead(o, k) ==
    [err |-> IF k.ok THEN "nil" ELSE "other", key |-> k.key,
     w |-> [o.w EXCEPT !.H = CloseHandle(@, o.h)]]

keyOf(o) == keyRead(o, ReadKeyFile(o.w, o.h))

\* a second lookup whose failure is never fs.ErrNotExist
keyUnderStrict(o2, w1, under) ==
    IF o2.ok THEN keyOf(o2)
    ELSE [err |-> "other", key |-> <<>>, w |-> o2.w]

\* tryGetRedumpKey after the key file under REDKEY was opened as o2 in the
\* world w1: the key, or the error of that open
keyUnder(o2, w1, under) ==
    IF o2.ok THEN keyOf(o2)
    ELSE [err |-> IF IsNotExist(w1, under) THEN "ErrNotExist" ELSE "other",
          key |-> <<>>, w |-> o2.w]

\* tryGetRedumpKey after the key file beside the image was opened as o1
keyBeside(o1, under) ==
    IF o1.ok THEN keyOf(o1)
    ELSE keyUnder(openNoKey(o1.w, under), o1.w, under)

\* index of the first component of comps that is ps3iso in any case
ps3IsoIdx(comps) ==
    CHOOSE i \in DOMAIN comps :
        /\ ToLower(comps[i]) = ps3isoDir
        /\ \A j \in 1..(i - 1) : ToLower(comps[j]) # ps3isoDir

\* tryGetRedumpKey: [err, key, w]; the key file is looked for beside the
\* image, then under REDKEY in place of the PS3ISO directory
tryGetRedumpKey(w, path) ==
    IF ToLower(Ext(path)) # isoExt
        \/ \A i \in DOMAIN path.comps : ToLower(path.comps[i]) # ps3isoDir
    THEN [err |-> "ErrNotExist", key |-> <<>>, w |-> w]
    ELSE keyBeside(openNoKey(w, ClientPath(FALSE,
                                 WithDkeyExt(path.comps, Ext(path)))),
                   ClientPath(FALSE,
                       [WithDkeyExt(path.comps, Ext(path))
                           EXCEPT ![ps3IsoIdx(path.comps)] = redkeyDir]))

\* FS.Open after tryGetRedumpKey returned k for the open file h
keyed(k, h) ==
    IF k.err = "nil" THEN encrypted(Opened(h, k.w), k.key)
    ELSE IF k.err = "ErrNotExist" THEN open3k3y(Opened(h, k.w))
    ELSE ClosedWithError(Opened(h, k.w))

\* FS.Open after root.Open returned o; when Stat on the file just opened
\* fails, the error is returned and the file stays open
openedGeneric(o, path, fault) ==
    IF ~o.ok THEN o
    ELSE IF fault = FaultFsStat THEN NotOpened(o.w)
    ELSE IF o.w.I[o.w.H[o.h].ino].dir THEN o
    ELSE keyed(tryGetRedumpKey(o.w, path), o.h)

\* FS.Open of a host path: [ok, h, w]
openGeneric(w, path, fault) == openedGeneric(rootOpen(w, path), path, fault)

fsStat(w, path) == rootStat(w, TrimSeparator(path))

\* sfoField: [ok, value], the field of a PARAM.SFO given by its bytes
RECURSIVE sfoEntry(_, _, _)
RECURSIVE sfoKey(_, _, _, _)
RECURSIVE sfoMatch(_, _, _, _)

\* the value of index entry i, DataLen - 1 bytes from its offset in the
\* data table
sfoValue(data, off, n) ==
    IF n < 0 \/ Len(data) < off + n THEN [ok |-> FALSE, value |-> <<>>]
    ELSE [ok |-> TRUE, value |-> SubSeq(data, off + 1, off + n)]

\* the key of index entry i ends before the zero byte at position z
sfoMatch(data, field, i, z) ==
    IF SubSeq(data, le32(data, 8) + le16(data, 20 + i * 16) + 1, z - 1) = field
    THEN sfoValue(data, le32(data, 12) + le32(data, 20 + i * 16 + 12),
                  le32(data, 20 + i * 16 + 4) - 1)
    ELSE sfoEntry(data, field, i + 1)

\* the key of index entry i starts at keyOff
sfoKey(data, field, i, keyOff) ==
    IF \A z \in (keyOff + 1)..Len(data) : data[z] # 0
    THEN [ok |-> FALSE, value |-> <<>>]
    ELSE sfoMatch(data, field, i,
                  CHOOSE z \in (keyOff + 1)..Len(data) :
                      /\ data[z] = 0
                      /\ \A y \in (keyOff + 1)..(z - 1) : data[y] # 0)

sfoEntry(data, field, i) ==
    IF i >= le32(data, 16) \/ Len(data) < 20 + i * 16 + 16
    THEN [ok |-> FALSE, value |-> <<>>]
    ELSE sfoKey(data, field, i, le32(data, 8) + le16(data, 20 + i * 16))

sfoField(data, field) ==
    IF Len(data) < 20 \/ SubSeq(data, 1, 4) # sfoMagic
    THEN [ok |-> FALSE, value |-> <<>>]
    ELSE sfoEntry(data, field, 0)

\* VirtualISO.getTitleID after PARAM.SFO was opened as o: [ok, w]; the file
\* is read and closed
titleIDOf(o) ==
    IF ~o.ok THEN [ok |-> FALSE, w |-> o.w]
    ELSE [ok |-> ~o.w.I[o.w.H[o.h].ino].dir
                 /\ sfoField(FileData(o), TitleIDField).ok,
          w |-> [o.w EXCEPT !.H = CloseHandle(@, o.h)]]

getTitleID(w, root) ==
    titleIDOf(openGeneric(w, ClientPath(FALSE, root.comps \o paramSFOPath),
                          FaultNone))

\* the directories among the entries of the directory at rp, as paths under
\* path, and the sizes of its files, both in listing order
SubDirs(w, rp, path) ==
    LET subs == SelectSeq(Listing(w.D, rp),
                          LAMBDA n : w.I[w.D[Append(rp, n)]].dir)
    IN  [i \in DOMAIN subs |-> Append(path, subs[i])]

FileSizesIn(w, rp) ==
    LET files == SelectSeq(Listing(w.D, rp),
                           LAMBDA n : ~w.I[w.D[Append(rp, n)]].dir)
    IN  [i \in DOMAIN files |-> bytesOf(Len(w.I[w.D[Append(rp, files[i])]].data))]

\* VirtualISO.scanDirectory on the host: [ok, w, dirs, sizes]; the paths of
\* queue are taken from its end, each directory is opened, listed and
\* closed, its files are recorded and its directories queued
RECURSIVE scanHost(_, _, _, _)
RECURSIVE processDirectory(_, _, _, _)

processDirectory(o, queue, dirs, sizes) ==
    IF ~o.ok THEN [ok |-> FALSE, w |-> o.w, dirs |-> dirs, sizes |-> sizes]
    ELSE IF ~o.w.I[o.w.H[o.h].ino].dir
    THEN [ok |-> FALSE, w |-> [o.w EXCEPT !.H = CloseHandle(@, o.h)],
          dirs |-> dirs, sizes |-> sizes]
    ELSE scanHost([o.w EXCEPT !.H = CloseHandle(@, o.h)],
                  Front(queue) \o SubDirs(o.w, o.w.H[o.h].name, Last(queue)),
                  dirs + 1,
                  sizes \o FileSizesIn(o.w, o.w.H[o.h].name))

scanHost(w, queue, dirs, sizes) ==
    IF queue = <<>>
    THEN [ok |-> TRUE, w |-> w, dirs |-> dirs, sizes |-> sizes]
    ELSE processDirectory(openGeneric(w, ClientPath(FALSE, Last(queue)), FaultNone),
                          queue, dirs, sizes)

\* VirtualISO.buildFS after the scan sc of the tree at the host path rp:
\* the handle that stands for the virtual ISO
buildFS(sc, rp) ==
    IF ~sc.ok THEN NotOpened(sc.w)
    ELSE Opened(Len(sc.w.H) + 1,
                [sc.w EXCEPT !.H = Append(@,
                    [NewHandle(sc.w.D[rp], rp)
                        EXCEPT !.wrap = <<"VirtualISO">>,
                               !.viso = NewVirtualISO([dirs |-> sc.dirs,
                                                       sizes |-> sc.sizes])])])

\* VirtualISO.init after getTitleID returned id
init(id, root) ==
    IF ~id.ok THEN NotOpened(id.w)
    ELSE buildFS(scanHost(id.w, <<root.comps>>, 0, <<>>), realPath(root).path)

\* NewVirtualISO(fsys, root, ps3Mode) after fsys.Stat(root) returned st
statedVirtualISO(st, root, ps3Mode) ==
    IF ~st.ok \/ ~st.info.isDir THEN NotOpened(st.w)
    ELSE init(IF ps3Mode THEN getTitleID(st.w, root)
              ELSE [ok |-> TRUE, w |-> st.w],
              root)

\* NewVirtualISO(fsys, root, ps3Mode): [ok, h, w]
openVirtualISO(w, root, ps3Mode) ==
    statedVirtualISO(fsStat(w, root), root, ps3Mode)

\* FS.Open after translatePath returned t
translated(w, t, fault) ==
    IF t.typ # genericFile
    THEN openVirtualISO(w, t.path, t.typ = virtualPS3ISOFile)
    ELSE openGeneric(w, t.path, fault)

\* FS.Open: [ok, h, w]
fsOpen(w, path, fault) == translated(w, translatePath(path), fault)

\* File.Stat on handle h: virtualISOStat for a virtual ISO, the Stat of the
\* host file otherwise
fileStat(w, h) ==
    IF w.H[h].wrap = <<"VirtualISO">>
    THEN [size |-> intOf(w.H[h].viso.totalSize), isDir |-> FALSE, mtime |-> 1,
          name |-> Last(w.H[h].name)]
    ELSE FileInfo(w.I[w.H[h].ino], Last(w.H[h].name))

fsCreate(w, path) == rootCreate(w, TrimSeparator(path))

fsRemove(w, path) == rootRemove(w, TrimSeparator(path))

fsMkdir(w, path) == rootMkdir(w, TrimSeparator(path))

(***************************************************************************)
(* Replies (pkg/proto/write.go).  A chunk is one write to the socket:      *)
(* t names the structure, v holds its fields in wire order.                *)
(***************************************************************************)
Chunk(t, v) == [t |-> t, v |-> v, name |-> <<>>]

BoolByte(b) == IF b THEN 1 ELSE 0

\* OpenDirResult, CreateFileResult, DeleteFileResult, MkdirResult,
\* RmdirResult, WriteFileResult, ReadFileResult: one int32
ResultI32(v) == Chunk("i32", <<v>>)

\* Writer.SendOpenDirResult
SendOpenDirResult(success) == <<ResultI32(IF success THEN 0 ELSE -1)>>

\* Writer.SendStatFileResult: FileSize, ModTime, AccessTime, ChangeTime, IsDirectory
SendStatFileResult(info) ==
    <<Chunk("stat", <<IF info.isDir THEN 0 ELSE info.size, info.mtime,
                      info.mtime, info.mtime, BoolByte(info.isDir)>>)>>

\* Writer.SendStatFileError
SendStatFileError == <<Chunk("stat", <<-1, 0, 0, 0, 0>>)>>

\* Writer.SendOpenFileResult: FileSize, ModTime
SendOpenFileResult(info) == <<Chunk("openfile", <<info.size, info.mtime>>)>>

\* Writer.SendOpenFileForCLOSEFILE
SendOpenFileForCLOSEFILE == <<Chunk("openfile", <<0, 0>>)>>

\* Writer.SendOpenFileError
SendOpenFileError == <<Chunk("openfile", <<-1, 0>>)>>

\* Writer.SendGetDirectorySizeResult
SendGetDirectorySizeResult(size) == <<Chunk("i64", <<size>>)>>

\* DirEntry of Writer.SendReadDirResult: FileSize, ModTime, IsDirectory, Name
DirEntryChunk(info) ==
    [t |-> "direntry",
     v |-> <<IF info.isDir THEN 0 ELSE info.size, info.mtime, BoolByte(info.isDir)>>,
     name |-> info.name]

RECURSIVE DirEntryChunks(_)
DirEntryChunks(infos) ==
    IF infos = <<>> THEN <<>>
    ELSE <<DirEntryChunk(Head(infos))>> \o DirEntryChunks(Tail(infos))

\* Writer.SendReadDirResult: the count, then one DirEntry per entry
SendReadDirResult(infos) ==
    <<Chunk("readdir", <<Len(infos)>>)>> \o DirEntryChunks(infos)

\* Writer.sendResult is given a string: io.WriteString writes it, and the
\* function goes on to binary.Write, which refuses a string (not a
\* fixed-size value) and returns an error.
sendResultString(str) == [out |-> <<[t |-> "name", v |-> <<>>, name |-> str]>>, err |-> TRUE]

\* Writer.SendReadDirEntryResult and SendReadDirEntryV2Result (v2 adds the
\* three times): [out, err].  entry.ok = FALSE stands for a nil entry.
SendReadDirEntryResult(entry, v2) ==
    LET fnLen == IF entry.ok THEN Len(entry.info.name) ELSE 0
        size  == IF ~entry.ok THEN -1
                 ELSE IF entry.info.isDir THEN 0 ELSE entry.info.size
        isDir == entry.ok /\ entry.info.isDir
        times == IF ~v2 THEN <<>>
                 ELSE IF entry.ok
                      THEN <<entry.info.mtime, entry.info.mtime, entry.info.mtime>>
                      ELSE <<0, 0, 0>>
        hdr   == Chunk(IF v2 THEN "direntryv2" ELSE "direntryv1",
                       <<size, fnLen>> \o times \o <<BoolByte(isDir)>>)
    IN  IF fnLen > 0 /\ entry.ok
        THEN LET n == sendResultString(entry.info.name) IN
             [out |-> <<hdr>> \o n.out, err |-> n.err]
        ELSE [out |-> <<hdr>>, err |-> FALSE]

(***************************************************************************)
(* Session state (internal/handler/state.go).                              *)
(***************************************************************************)
InitState == [CwdHandle |-> NULL, ROFile |-> NULL, WOFile |-> NULL, CDSectorSize |-> 0]

\* a Close that forgets the write-only file
StateCloseKeepsWOFile(S, H) ==
    LET H1 == IF S.ROFile # NULL THEN CloseHandle(H, S.ROFile) ELSE H
        H2 == IF S.CwdHandle # NULL THEN CloseHandle(H1, S.CwdHandle) ELSE H1
    IN  [S |-> InitState, H |-> H2]

\* State.Close: [S, H]
StateClose(S, H) ==
    LET H1 == IF S.ROFile # NULL THEN CloseHandle(H, S.ROFile) ELSE H
        H2 == IF S.CwdHandle # NULL THEN CloseHandle(H1, S.CwdHandle) ELSE H1
        H3 == IF S.WOFile # NULL THEN CloseHandle(H2, S.WOFile) ELSE H2
    IN  [S |-> InitState, H |-> H3]

\* Context.Close: cancels the connection's context and closes the state
ContextClose(S, H) == StateClose(S, H)

\* What a handler of the server hands back: the new state and world, the
\* chunks it wrote, whether it returned an error (the connection is then
\* torn down), whether the process died in it, and the payload bytes it
\* read from the socket.
Result(S, w, out, err) ==
    [S |-> S, w |-> w, out |-> out, err |-> err, crash |-> FALSE, eat |-> 0]

(***************************************************************************)
(* The handler (package handler): one operator per Handle function.        *)
(***************************************************************************)
DefaultSectorSize == 2352

psxPrefixSize == 24

\* bounds of the file sizes for which OPEN_FILE probes the CD sector size
ProbeMinSize == 2097152

ProbeMaxSize == 889192448

\* determineSectorSize on a file of the model: every file of the model is
\* shorter than ProbeMinSize, so the probe is not reached; the read of the
\* probe window past the end of such a file fails and -1 is returned.
determineSectorSize(data) == -1

\* a HandleOpenDir that reports success for whatever it could open
HandleOpenDirAnyHandle(S, w, path, fault) ==
    LET o == fsOpen(w, path, fault) IN
    IF ~o.ok THEN [S |-> S, w |-> o.w, ok |-> FALSE]
    ELSE [S |-> [S EXCEPT !.CwdHandle = o.h], w |-> o.w, ok |-> TRUE]

\* Handler.HandleOpenDir after Fs.Open returned o: the Stat of the handle
\* is taken, the handle replaces the current directory of the session, and
\* the answer is the IsDir of the Stat
openedCwdHandle(S, o, fault) ==
    IF ~o.ok THEN [S |-> S, w |-> o.w, ok |-> FALSE]
    ELSE IF fault = FaultStat THEN [S |-> S, w |-> o.w, ok |-> FALSE]
    ELSE [S |-> [S EXCEPT !.CwdHandle = o.h],
          w |-> [o.w EXCEPT !.H = IF S.CwdHandle # NULL
                                  THEN CloseHandle(@, S.CwdHandle) ELSE @],
          ok |-> fileStat(o.w, o.h).isDir]

\* Handler.HandleOpenDir: [S, w, ok]
HandleOpenDir(S, w, path, fault) ==
    openedCwdHandle(S, fsOpen(w, path, fault), fault)

\* File.Readdirnames(1) on handle h: [ok, name, H]; not ok is an error or
\* io.EOF.  The first call fetches the listing of the directory.
Readdirnames1(w, h) ==
    LET hd   == w.H[h]
        ents == IF hd.listed THEN hd.ents
                ELSE IF hd.name \in DOMAIN w.D /\ w.D[hd.name] = hd.ino
                     THEN Listing(w.D, hd.name) ELSE <<>>
    IN  IF ~w.I[hd.ino].dir \/ ents = <<>>
        THEN [ok |-> FALSE, name |-> <<>>, H |-> w.H]
        ELSE [ok |-> TRUE, name |-> Head(ents),
              H |-> [w.H EXCEPT ![h].listed = TRUE, ![h].ents = Tail(ents)]]

\* Handler.HandleReadDirEntry: [S, w, entry]; entry.ok = FALSE is nil
RECURSIVE HandleReadDirEntry(_, _)
HandleReadDirEntry(S, w) ==
    LET none == [ok |-> FALSE, info |-> FileInfo(DirInode, <<>>)] IN
    IF S.CwdHandle = NULL THEN [S |-> S, w |-> w, entry |-> none]
    ELSE LET r == Readdirnames1(w, S.CwdHandle) IN
         IF ~r.ok
         THEN [S |-> [S EXCEPT !.CwdHandle = NULL],
               w |-> [w EXCEPT !.H = CloseHandle(r.H, S.CwdHandle)],
               entry |-> none]
         ELSE LET w1 == [w EXCEPT !.H = r.H]
                  \* filepath.Join(CwdHandle.Name(), names[0])
                  st == fsStat(w1, ClientPath(TRUE, Append(w1.H[S.CwdHandle].name, r.name)))
              IN  IF ~st.ok THEN HandleReadDirEntry(S, st.w)
                  ELSE [S |-> S, w |-> st.w, entry |-> [ok |-> TRUE, info |-> st.info]]

\* the entries File.Readdir(-1) returns: lstat of each remaining name
RECURSIVE ReaddirInfos(_, _, _)
ReaddirInfos(w, dir, names) ==
    IF names = <<>> THEN <<>>
    ELSE LET q == Append(dir, Head(names)) IN
         (IF q \in DOMAIN w.D
          THEN <<FileInfo(w.I[w.D[q]], Head(names))>> ELSE <<>>)
         \o ReaddirInfos(w, dir, Tail(names))

\* Handler.HandleReadDir: [S, w, files]
HandleReadDir(S, w) ==
    IF S.CwdHandle = NULL THEN [S |-> S, w |-> w, files |-> <<>>]
    ELSE LET hd   == w.H[S.CwdHandle]
             ents == IF hd.listed THEN hd.ents
                     ELSE IF hd.name \in DOMAIN w.D /\ w.D[hd.name] = hd.ino
                          THEN Listing(w.D, hd.name) ELSE <<>>
         IN  IF ~w.I[hd.ino].dir THEN [S |-> S, w |-> w, files |-> <<>>]
             ELSE [S |-> S,
                   w |-> [w EXCEPT !.H[S.CwdHandle].listed = TRUE,
                                   !.H[S.CwdHandle].ents = <<>>],
                   files |-> ReaddirInfos(w, hd.name, ents)]

\* Handler.HandleStatFile: [ok, info, w]
HandleStatFile(w, path) == fsStat(w, path)

\* Handler.HandleOpenFile after Fs.Open returned o: the file is stored in
\* the session, its Stat taken and its sector size probed
openedROFile(S1, o, fault) ==
    IF ~o.ok
    THEN [S |-> S1, w |-> o.w, ok |-> FALSE, info |-> FileInfo(DirInode, <<>>)]
    ELSE LET S2 == [S1 EXCEPT !.ROFile = o.h, !.CDSectorSize = DefaultSectorSize]
             ino == o.w.I[o.w.H[o.h].ino]
             fi == fileStat(o.w, o.h)
             probe == IF fi.size >= ProbeMinSize /\ fi.size <= ProbeMaxSize
                      THEN determineSectorSize(ino.data) ELSE -1
         IN  IF fault = FaultStat
             THEN [S |-> S2, w |-> o.w, ok |-> FALSE,
                   info |-> FileInfo(DirInode, <<>>)]
             ELSE [S |-> IF probe > 0 /\ probe # S2.CDSectorSize
                         THEN [S2 EXCEPT !.CDSectorSize = probe] ELSE S2,
                   w |-> o.w, ok |-> TRUE, info |-> fi]

\* Handler.HandleOpenFile: [S, w, ok, info]
HandleOpenFile(S, w, path, fault) ==
    openedROFile([S EXCEPT !.ROFile = NULL],
                 fsOpen([w EXCEPT !.H = IF S.ROFile # NULL
                                        THEN CloseHandle(@, S.ROFile) ELSE @],
                        path, fault),
                 fault)

\* a HandleCloseFile that forgets the file without closing it
HandleCloseFileKeeps(S, w) ==
    IF S.ROFile = NULL THEN [S |-> S, w |-> w]
    ELSE [S |-> S, w |-> [w EXCEPT !.H = CloseHandle(@, S.ROFile)]]

HandleCloseFileForgets(S, w) ==
    [S |-> [S EXCEPT !.ROFile = NULL, !.CDSectorSize = 0], w |-> w]

\* Handler.HandleCloseFile: [S, w]
HandleCloseFile(S, w) ==
    IF S.ROFile = NULL THEN [S |-> S, w |-> w]
    ELSE [S |-> [S EXCEPT !.ROFile = NULL, !.CDSectorSize = 0],
          w |-> [w EXCEPT !.H = CloseHandle(@, S.ROFile)]]

\* readFileResponseWriter of the server: the length WriteHeader was given
\* (-1 before it is called) and what it passed upstream
ReadFileResponseWriter == [dataLength |-> -1, out |-> <<>>]

\* readFileResponseWriter.WriteHeader
WriteHeader(wr, length) == [wr EXCEPT !.dataLength = length]

\* readFileResponseWriter.Write: [wr, err]
Write(wr, p) ==
    IF wr.dataLength <= 0 THEN [wr |-> wr, err |-> TRUE]
    ELSE [wr |-> [wr EXCEPT !.out = Append(@, Chunk("raw", p))], err |-> FALSE]

\* bytes.Buffer.WriteTo: Write is called only when the buffer holds bytes
BufferWriteTo(wr, buf) ==
    IF Len(buf) > 0 THEN Write(wr, buf) ELSE [wr |-> wr, err |-> FALSE]

\* bytes [off, off+limit) of data, as far as they exist
ReadAt(data, off, limit) ==
    SubSeq(data, off + 1, Min(Len(data), off + limit))

\* Handler.HandleReadFile: [S, w, wr, err].  hi: int64(offset) is negative,
\* Seek fails; reading a directory fails.
HandleReadFile(S, w, limit, off, hi, wr) ==
    IF S.ROFile = NULL THEN [S |-> S, w |-> w, wr |-> wr, err |-> TRUE]
    ELSE IF hi THEN [S |-> S, w |-> w, wr |-> wr, err |-> TRUE]
    ELSE LET ino == w.I[w.H[S.ROFile].ino] IN
         IF ino.dir
         THEN [S |-> S, w |-> [w EXCEPT !.H[S.ROFile].pos = off],
               wr |-> wr, err |-> TRUE]
         ELSE LET buf == ReadAt(ino.data, off, limit)
                  n   == Len(buf)
                  r   == BufferWriteTo(WriteHeader(wr, n), buf)
              IN  [S |-> S, w |-> [w EXCEPT !.H[S.ROFile].pos = off + n],
                   wr |-> r.wr, err |-> r.err]

\* Copier.CopyN calls itself before anything else: the call never returns,
\* the goroutine's stack overflows and the runtime ends the process.
CopyN == [crash |-> TRUE]

\* Handler.HandleReadFileCritical: [S, w, err, crash]
HandleReadFileCritical(S, w, limit, off, hi) ==
    IF S.ROFile = NULL THEN [S |-> S, w |-> w, err |-> TRUE, crash |-> FALSE]
    ELSE IF hi THEN [S |-> S, w |-> w, err |-> TRUE, crash |-> FALSE]
    ELSE [S |-> S, w |-> [w EXCEPT !.H[S.ROFile].pos = off],
          err |-> FALSE, crash |-> CopyN.crash]

\* Handler.HandleReadCD2048Critical: [S, w, err, crash]
HandleReadCD2048Critical(S, w, startSector, sectorsCount) ==
    IF S.ROFile = NULL THEN [S |-> S, w |-> w, err |-> TRUE, crash |-> FALSE]
    ELSE IF S.CDSectorSize <= 0 THEN [S |-> S, w |-> w, err |-> TRUE, crash |-> FALSE]
    ELSE IF sectorsCount = 0 THEN [S |-> S, w |-> w, err |-> FALSE, crash |-> FALSE]
    ELSE [S |-> S,
          w |-> [w EXCEPT !.H[S.ROFile].pos = psxPrefixSize + startSector * S.CDSectorSize],
          err |-> FALSE, crash |-> CopyN.crash]

\* a CREATE_FILE that does not look at AllowWrite
HandleCreateFileUngated(S, w, path) ==
    LET H1 == IF S.WOFile # NULL THEN CloseHandle(w.H, S.WOFile) ELSE w.H
        S1 == [S EXCEPT !.WOFile = NULL]
        st == fsStat([w EXCEPT !.H = H1], path)
    IN  IF ~st.ok THEN [S |-> S1, w |-> st.w, err |-> TRUE]
        ELSE IF st.info.isDir THEN [S |-> S1, w |-> st.w, err |-> FALSE]
        ELSE LET c == fsCreate(st.w, path) IN
             IF ~c.ok THEN [S |-> S1, w |-> c.w, err |-> TRUE]
             ELSE [S |-> [S1 EXCEPT !.WOFile = c.h], w |-> c.w, err |-> FALSE]

\* Handler.HandleCreateFile: [S, w, err]
HandleCreateFile(S, w, path) ==
    IF ~allowWrite THEN [S |-> S, w |-> w, err |-> TRUE]
    ELSE LET H1 == IF S.WOFile # NULL THEN CloseHandle(w.H, S.WOFile) ELSE w.H
             S1 == [S EXCEPT !.WOFile = NULL]
             st == fsStat([w EXCEPT !.H = H1], path)
         IN  IF ~st.ok THEN [S |-> S1, w |-> st.w, err |-> TRUE]
             ELSE IF st.info.isDir THEN [S |-> S1, w |-> st.w, err |-> FALSE]
             ELSE LET c == fsCreate(st.w, path) IN
                  IF ~c.ok THEN [S |-> S1, w |-> c.w, err |-> TRUE]
                  ELSE [S |-> [S1 EXCEPT !.WOFile = c.h], w |-> c.w, err |-> FALSE]

\* os.File.Write at the handle's position
FileWrite(w, h, data) ==
    LET i   == w.H[h].ino
        old == w.I[i].data
        pos == w.H[h].pos
        new == SubSeq(old, 1, pos) \o data
               \o SubSeq(old, pos + Len(data) + 1, Len(old))
    IN  [w EXCEPT !.I[i].data = new, !.H[h].pos = pos + Len(data)]

\* Handler.HandleWriteFile: [S, w, written, err, eat]; eat is the number of
\* payload bytes taken from the socket (data is read only by Copier.Copy).
HandleWriteFile(S, w, data) ==
    IF ~allowWrite
    THEN [S |-> S, w |-> w, written |-> 0, err |-> TRUE, eat |-> 0]
    ELSE IF S.WOFile = NULL
    THEN [S |-> S, w |-> w, written |-> 0, err |-> TRUE, eat |-> 0]
    ELSE [S |-> S, w |-> FileWrite(w, S.WOFile, data), written |-> Len(data),
          err |-> FALSE, eat |-> Len(data)]

\* Handler.HandleDeleteFile: [w, err]
HandleDeleteFile(w, path) ==
    IF ~allowWrite THEN [w |-> w, err |-> TRUE]
    ELSE LET r == fsRemove(w, path) IN [w |-> r.w, err |-> ~r.ok]

\* Handler.HandleMkdir: [w, err]
HandleMkdir(w, path) ==
    IF ~allowWrite THEN [w |-> w, err |-> TRUE]
    ELSE LET r == fsMkdir(w, path) IN [w |-> r.w, err |-> ~r.ok]

\* Handler.HandleRmdir: [w, err]
HandleRmdir(w, path) ==
    IF ~allowWrite THEN [w |-> w, err |-> TRUE]
    ELSE LET r == fsRemove(w, path) IN [w |-> r.w, err |-> ~r.ok]

\* sum of the sizes of the regular files among paths
RECURSIVE SumSizes(_, _)
SumSizes(w, paths) ==
    IF paths = {} THEN 0
    ELSE LET q == CHOOSE x \in paths : TRUE IN
         (IF w.I[w.D[q]].dir THEN 0 ELSE Len(w.I[w.D[q]].data))
         + SumSizes(w, paths \ {q})

\* Handler.HandleGetDirSize: afero.Walk from "." (the root), whatever path
\* is; always a nil error
HandleGetDirSize(w, path) ==
    [size |-> SumSizes(w, {q \in DOMAIN w.D : InsideRoot(q)}), err |-> FALSE]

(***************************************************************************)
(* The server (pkg/server): one operator per handle method, giving the     *)
(* Result of the method on state S and world w for the command cmd.        *)
(***************************************************************************)
openDirResult(r) == Result(r.S, r.w, SendOpenDirResult(r.ok), FALSE)

handleOpenDir(S, w, cmd, fault) ==
    openDirResult(HandleOpenDir(S, w, cmd.path, fault))

\* a READ_DIR_ENTRY that keeps the directory in the session at its end
handleReadDirEntryKeepsDir(S, w) ==
    LET r == HandleReadDirEntry(S, w)
        o == SendReadDirEntryResult(r.entry, FALSE)
    IN  Result(S, r.w, o.out, o.err)

handleReadDirEntry(S, w) ==
    LET r == HandleReadDirEntry(S, w)
        o == SendReadDirEntryResult(r.entry, FALSE)
    IN  Result(r.S, r.w, o.out, o.err)

handleReadDirEntryV2(S, w) ==
    LET r == HandleReadDirEntry(S, w)
        o == SendReadDirEntryResult(r.entry, TRUE)
    IN  Result(r.S, r.w, o.out, o.err)

handleReadDir(S, w) ==
    LET r == HandleReadDir(S, w) IN
    Result(r.S, r.w, SendReadDirResult(r.files), FALSE)

\* a STAT_FILE whose failure is returned as the handler's error
handleStatFileAborts(S, w, cmd) ==
    LET r == HandleStatFile(w, cmd.path) IN
    Result(S, r.w, IF r.ok THEN SendStatFileResult(r.info) ELSE <<>>, ~r.ok)

handleStatFile(S, w, cmd) ==
    LET r == HandleStatFile(w, cmd.path) IN
    Result(S, r.w, IF r.ok THEN SendStatFileResult(r.info) ELSE SendStatFileError,
           FALSE)

openFileResult(r) ==
    Result(r.S, r.w,
           IF r.ok THEN SendOpenFileResult(r.info) ELSE SendOpenFileError,
           FALSE)

handleOpenFile(S, w, cmd, fault) ==
    LET filePath == Clean(cmd.path) IN
    IF BaseName(filePath) = CloseFileName
    THEN LET c == HandleCloseFile(S, w) IN
         Result(c.S, c.w, SendOpenFileForCLOSEFILE, FALSE)
    ELSE openFileResult(HandleOpenFile(S, w, filePath, fault))

handleReadFile(S, w, cmd) ==
    LET r == HandleReadFile(S, w, cmd.a, cmd.b, cmd.hi, ReadFileResponseWriter) IN
    Result(r.S, r.w, r.wr.out, r.err)

handleReadFileCritical(S, w, cmd) ==
    LET r == HandleReadFileCritical(S, w, cmd.a, cmd.b, cmd.hi) IN
    [Result(r.S, r.w, <<>>, r.err) EXCEPT !.crash = r.crash]

\* Reader.ReadReadCD2048Critical returns (SectorsToRead, StartSector); the
\* server takes the pair as (startSector, sectorsToRead).
handleReadCD2048Critical(S, w, cmd) ==
    LET sectorsToReadField == cmd.a
        startSectorField   == cmd.b
        startSector        == sectorsToReadField
        sectorsToRead      == startSectorField
        r == HandleReadCD2048Critical(S, w, startSector, sectorsToRead)
    IN  [Result(r.S, r.w, <<>>, r.err) EXCEPT !.crash = r.crash]

handleCreateFile(S, w, cmd) ==
    LET r == HandleCreateFile(S, w, cmd.path) IN
    Result(r.S, r.w, <<ResultI32(IF r.err THEN -1 ELSE 0)>>, FALSE)

handleWriteFile(S, w, cmd) ==
    LET r == HandleWriteFile(S, w, cmd.data) IN
    [Result(r.S, r.w, <<ResultI32(IF r.err THEN -1 ELSE r.written)>>, FALSE)
        EXCEPT !.eat = r.eat]

handleDeleteFile(S, w, cmd) ==
    LET r == HandleDeleteFile(w, cmd.path) IN
    Result(S, r.w, <<ResultI32(IF r.err THEN -1 ELSE 0)>>, FALSE)

handleMkdir(S, w, cmd) ==
    LET r == HandleMkdir(w, cmd.path) IN
    Result(S, r.w, <<ResultI32(IF r.err THEN -1 ELSE 0)>>, FALSE)

handleRmdir(S, w, cmd) ==
    LET r == HandleRmdir(w, cmd.path) IN
    Result(S, r.w, <<ResultI32(IF r.err THEN -1 ELSE 0)>>, FALSE)

handleGetDirSize(S, w, cmd) ==
    LET r == HandleGetDirSize(w, cmd.path) IN
    Result(S, w, IF r.err THEN SendGetDirectorySizeResult(-1)
                 ELSE SendGetDirectorySizeResult(r.size), FALSE)

\* an unknown opcode answered with -1, the connection kept
unknownOpCodeAnswered(S, w) == Result(S, w, <<ResultI32(-1)>>, FALSE)

\* Server.handleCommand, default branch: the error "unknown opCode"
unknownOpCode(S, w) == Result(S, w, <<>>, TRUE)

(***************************************************************************)
(* The connection: the client's side of the socket and serveConn's loop.   *)
(***************************************************************************)
\* cells of inbuf: a command frame with its path, or follow-up payload bytes
FrameCell(cmd) == [k |-> "frame", cmd |-> cmd, b |-> <<>>]

DataCell(b) == [k |-> "data", cmd |-> PlainCommand(0), b |-> b]

FramesIn(buf) == Len(SelectSeq(buf, LAMBDA c : c.k = "frame"))

\* the world of the current state
W == World(disk, inodes, handles, touched)

\* the chunks out as written while command n is handled
RECURSIVE Tagged(_, _)
Tagged(out, n) ==
    IF out = <<>> THEN <<>>
    ELSE <<[n |-> n, c |-> Head(out)]>> \o Tagged(Tail(out), n)

\* serveConn returns: the deferred conn.Close() and ctx.Close() run
Teardown(S, H) ==
    LET c == ContextClose(S, H) IN
    /\ State' = c.S
    /\ handles' = c.H
    /\ sockClosed' = TRUE
    /\ pc' = "closed"

\* binary.Read of a Command from the socket: [ok, cmd, rest].  A frame at
\* the head is the next command.  Payload bytes at the head are taken as
\* the start of a frame and completed with bytes of what follows them: the
\* opcode is then made of the first two payload bytes (big endian).
NextCommand(buf) ==
    IF buf = <<>> THEN [ok |-> FALSE, cmd |-> PlainCommand(0), rest |-> buf]
    ELSE IF Head(buf).k = "frame"
    THEN [ok |-> TRUE, cmd |-> Head(buf).cmd, rest |-> Tail(buf)]
    ELSE IF Len(buf) >= 2 /\ Len(Head(buf).b) >= 1
    THEN LET b  == Head(buf).b
             lo == IF Len(b) >= 2 THEN b[2] ELSE buf[2].cmd.op \div 256
         IN  [ok |-> TRUE, cmd |-> PlainCommand(b[1] * 256 + lo),
              rest |-> Tail(Tail(buf))]
    ELSE [ok |-> FALSE, cmd |-> PlainCommand(0), rest |-> buf]

\* the client paths of the model: "/" the root, "/b" a file, "/a" a directory, "/n"
\* missing, "/n/n" missing with its parent, "/CLOSEFILE", and "../r2/a" (relative and rooted), which names
\* a file of the sibling directory
PathRoot == ClientPath(TRUE, <<>>)

PathB == ClientPath(TRUE, <<NameB>>)

PathA == ClientPath(TRUE, <<NameA>>)

PathN == ClientPath(TRUE, <<NameN>>)

PathNN == ClientPath(TRUE, <<NameN, NameN>>)

PathCloseFile == ClientPath(TRUE, <<CloseFileName>>)

PathUp == ClientPath(FALSE, <<DotDot, SiblingName, NameA>>)

PathRootedUp == ClientPath(TRUE, <<DotDot, SiblingName, NameA>>)

\* the payload "ABC"
ABC == <<65, 66, 67>>

\* the commands a client of the model sends
Commands ==
    {PathCommand(CmdOpenFile, p) : p \in {PathB, PathA, PathN, PathUp, PathCloseFile}}
    \cup {PathCommand(CmdOpenDir, p) : p \in {PathA, PathB, PathN, PathRoot}}
    \cup {PathCommand(CmdStatFile, p) : p \in {PathB, PathN, PathRootedUp}}
    \cup {PathCommand(CmdCreateFile, p) : p \in {PathB, PathN, PathA}}
    \cup {PathCommand(CmdDeleteFile, p) : p \in {PathB, PathN, PathRootedUp}}
    \cup {PathCommand(CmdMkdir, p) : p \in {PathN, PathNN, PathA}}
    \cup {PathCommand(CmdRmdir, p) : p \in {PathA, PathN}}
    \cup {PathCommand(CmdGetDirSize, PathA)}
    \cup {WriteCommand(d) : d \in {<<>>, ABC}}
    \cup {ReadCommandOf(CmdReadFile, 3, 0, FALSE), ReadCommandOf(CmdReadFile, 1, 1, FALSE),
          ReadCommandOf(CmdReadFile, 4, 2, FALSE), ReadCommandOf(CmdReadFile, 0, 0, FALSE),
          ReadCommandOf(CmdReadFile, 1, 0, TRUE)}
    \cup {ReadCommandOf(CmdReadFileCritical, 1, 0, FALSE)}
    \cup {ReadCommandOf(CmdReadCD2048Critical, 0, 1, FALSE),
          ReadCommandOf(CmdReadCD2048Critical, 1, 0, FALSE)}
    \cup {PlainCommand(op) : op \in {CmdReadDirEntry, CmdReadDirEntryV2, CmdReadDir,
                                     CmdCustom0, CmdReadDir + 1}}

\* a session that creates "/n", writes "ABC" to it and closes it with a
\* second CREATE_FILE
ScriptCreateWrite ==
    <<PathCommand(CmdCreateFile, PathN), WriteCommand(ABC),
      PathCommand(CmdCreateFile, PathN)>>

\* the client writes a command frame, its path and its payload
ClientSend(cmd) ==
    /\ clientOpen
    /\ pc \in {"read", "handle"}
    /\ sent < MaxCmds
    /\ FramesIn(inbuf) < MaxPipe
    /\ inbuf' = inbuf \o <<FrameCell(cmd)>>
                 \o (IF cmd.data = <<>> THEN <<>> ELSE <<DataCell(cmd.data)>>)
    /\ sent' = sent + 1
    /\ script' = IF script = sent /\ sent < Len(ScriptCreateWrite)
                     /\ cmd = ScriptCreateWrite[sent + 1]
                  THEN script + 1 ELSE script
    /\ UNCHANGED <<fileVars,
                   allowWrite, faults, disk, inodes, handles, State, pc, cur,
                   clientOpen, nread, done, wire, sockClosed, touched>>

\* the client closes its side of the connection
ClientClose ==
    /\ clientOpen
    /\ pc \in {"read", "handle"}
    /\ clientOpen' = FALSE
    /\ UNCHANGED <<fileVars,
                   allowWrite, faults, disk, inodes, handles, State, pc, cur,
                   inbuf, sent, script, nread, done, wire, sockClosed, touched>>

\* a loop that reads the next command while the last one is being handled
ReadCommandPipelined ==
    /\ pc \in {"read", "handle"}
    /\ NextCommand(inbuf).ok
    /\ cur' = NextCommand(inbuf).cmd
    /\ inbuf' = NextCommand(inbuf).rest
    /\ nread' = nread + 1
    /\ pc' = "handle"
    /\ UNCHANGED <<fileVars,
                   allowWrite, faults, disk, inodes, handles, State, clientOpen,
                   sent, script, done, wire, sockClosed, touched>>

\* serveConn: ReadCommand returns a command
ReadCommand ==
    /\ pc = "read"
    /\ NextCommand(inbuf).ok
    /\ cur' = NextCommand(inbuf).cmd
    /\ inbuf' = NextCommand(inbuf).rest
    /\ nread' = nread + 1
    /\ pc' = "handle"
    /\ UNCHANGED <<fileVars,
                   allowWrite, faults, disk, inodes, handles, State, clientOpen,
                   sent, script, done, wire, sockClosed, touched>>

\* serveConn: ReadCommand returns io.EOF, the client has closed
ReadEOF ==
    /\ pc = "read"
    /\ inbuf = <<>>
    /\ ~clientOpen
    /\ Teardown(State, handles)
    /\ UNCHANGED <<fileVars,
                   allowWrite, faults, disk, inodes, cur, inbuf, clientOpen,
                   sent, script, nread, done, wire, touched>>

\* serveConn: ReadCommand fails, the client has closed inside a frame
ReadError ==
    /\ pc = "read"
    /\ inbuf # <<>>
    /\ ~NextCommand(inbuf).ok
    /\ ~clientOpen
    /\ Teardown(State, handles)
    /\ UNCHANGED <<fileVars,
                   allowWrite, faults, disk, inodes, cur, inbuf, clientOpen,
                   sent, script, nread, done, wire, touched>>

\* serveConn: the read deadline expires while ReadCommand waits for bytes
ReadDeadline ==
    /\ pc = "read"
    /\ ~NextCommand(inbuf).ok
    /\ clientOpen
    /\ Teardown(State, handles)
    /\ UNCHANGED <<fileVars,
                   allowWrite, faults, disk, inodes, cur, inbuf, clientOpen,
                   sent, script, nread, done, wire, touched>>

\* the outcomes of Stat on a file just opened that the host can produce
Faults == IF faults > 0 THEN {FaultNone, FaultFsStat, FaultStat} ELSE {FaultNone}

\* the command cur, handled under fault, met the failure: it opened a file
Struck(fault) ==
    /\ fault # FaultNone
    /\ cur.op \in {CmdOpenDir, CmdOpenFile}
    /\ fsOpen(W, IF cur.op = CmdOpenFile THEN Clean(cur.path) ELSE cur.path,
              FaultNone).ok
    /\ ~(cur.op = CmdOpenFile /\ BaseName(Clean(cur.path)) = CloseFileName)

\* serveConn after handleCommand: the handler's effects, then the next turn
\* of the loop, or the return when the handler returned an error.  When the
\* process dies in the handler nothing of serveConn runs any more.
Apply(res, fault) ==
    /\ faults' = IF Struck(fault) THEN faults - 1 ELSE faults
    /\ disk' = res.w.D
    /\ inodes' = res.w.I
    /\ touched' = res.w.T
    /\ wire' = wire \o Tagged(res.out, nread)
    /\ inbuf' = IF res.eat > 0 THEN Tail(inbuf) ELSE inbuf
    /\ IF res.crash
       THEN /\ pc' = "crashed"
            /\ State' = res.S
            /\ handles' = res.w.H
            /\ UNCHANGED <<done, sockClosed>>
       ELSE /\ done' = done + 1
            /\ IF res.err
               THEN Teardown(res.S, res.w.H)
               ELSE /\ pc' = "read"
                    /\ State' = res.S
                    /\ handles' = res.w.H
                    /\ UNCHANGED sockClosed
    /\ UNCHANGED <<fileVars, allowWrite, cur, clientOpen, sent, script, nread>>

\* serveConn: handleCommand, case CmdOpenDir
ServeOpenDir ==
    /\ pc = "handle"
    /\ cur.op = CmdOpenDir
    /\ \E fault \in Faults : Apply(handleOpenDir(State, W, cur, fault), fault)

\* serveConn: handleCommand, case CmdReadDir
ServeReadDir ==
    /\ pc = "handle"
    /\ cur.op = CmdReadDir
    /\ Apply(handleReadDir(State, W), FaultNone)

\* serveConn: handleCommand, case CmdStatFile
ServeStatFile ==
    /\ pc = "handle"
    /\ cur.op = CmdStatFile
    /\ Apply(handleStatFile(State, W, cur), FaultNone)

\* serveConn: handleCommand, case CmdOpenFile
ServeOpenFile ==
    /\ pc = "handle"
    /\ cur.op = CmdOpenFile
    /\ \E fault \in Faults : Apply(handleOpenFile(State, W, cur, fault), fault)

\* serveConn: handleCommand, case CmdReadFile
ServeReadFile ==
    /\ pc = "handle"
    /\ cur.op = CmdReadFile
    /\ Apply(handleReadFile(State, W, cur), FaultNone)

\* serveConn: handleCommand, case CmdReadFileCritical
ServeReadFileCritical ==
    /\ pc = "handle"
    /\ cur.op = CmdReadFileCritical
    /\ Apply(handleReadFileCritical(State, W, cur), FaultNone)

\* serveConn: handleCommand, case CmdReadCD2048Critical
ServeReadCD2048Critical ==
    /\ pc = "handle"
    /\ cur.op = CmdReadCD2048Critical
    /\ Apply(handleReadCD2048Critical(State, W, cur), FaultNone)

\* serveConn: handleCommand, case CmdReadDirEntry
ServeReadDirEntry ==
    /\ pc = "handle"
    /\ cur.op = CmdReadDirEntry
    /\ Apply(handleReadDirEntry(State, W), FaultNone)

\* serveConn: handleCommand, case CmdReadDirEntryV2
ServeReadDirEntryV2 ==
    /\ pc = "handle"
    /\ cur.op = CmdReadDirEntryV2
    /\ Apply(handleReadDirEntryV2(State, W), FaultNone)

\* serveConn: handleCommand, case CmdCreateFile
ServeCreateFile ==
    /\ pc = "handle"
    /\ cur.op = CmdCreateFile
    /\ Apply(handleCreateFile(State, W, cur), FaultNone)

\* serveConn: handleCommand, case CmdWriteFile
ServeWriteFile ==
    /\ pc = "handle"
    /\ cur.op = CmdWriteFile
    /\ Apply(handleWriteFile(State, W, cur), FaultNone)

\* serveConn: handleCommand, case CmdDeleteFile
ServeDeleteFile ==
    /\ pc = "handle"
    /\ cur.op = CmdDeleteFile
    /\ Apply(handleDeleteFile(State, W, cur), FaultNone)

\* serveConn: handleCommand, case CmdMkdir
ServeMkdir ==
    /\ pc = "handle"
    /\ cur.op = CmdMkdir
    /\ Apply(handleMkdir(State, W, cur), FaultNone)

\* serveConn: handleCommand, case CmdRmdir
ServeRmdir ==
    /\ pc = "handle"
    /\ cur.op = CmdRmdir
    /\ Apply(handleRmdir(State, W, cur), FaultNone)

\* serveConn: handleCommand, case CmdGetDirSize
ServeGetDirSize ==
    /\ pc = "handle"
    /\ cur.op = CmdGetDirSize
    /\ Apply(handleGetDirSize(State, W, cur), FaultNone)

\* serveConn: handleCommand on an opcode it does not know (default branch)
ServeUnknown ==
    /\ pc = "handle"
    /\ cur.op \notin KnownOpCodes
    /\ Apply(unknownOpCode(State, W), FaultNone)

(***************************************************************************)
(* The host tree at start: /r (the root) with the empty directory a and    *)
(* the file b, and next to it /r2 with the file a.                         *)
(***************************************************************************)
InitInodes ==
    <<DirInode, DirInode, FileInode(<<1, 2, 3>>), DirInode, FileInode(<<9>>)>>

InitDisk ==
    (<<RootName>> :> 1) @@ (<<RootName, NameA>> :> 2) @@ (<<RootName, NameB>> :> 3)
    @@ (<<SiblingName>> :> 4) @@ (<<SiblingName, NameA>> :> 5)

\* a connection just accepted, before its first command
InitConn ==
    /\ handles = <<>>
    /\ State = InitState
    /\ pc = "read"
    /\ cur = PlainCommand(0)
    /\ inbuf = <<>>
    /\ clientOpen = TRUE
    /\ sent = 0
    /\ script = 0
    /\ nread = 0
    /\ done = 0
    /\ wire = <<>>
    /\ sockClosed = FALSE
    /\ touched = {}

InitCommon ==
    /\ allowWrite \in BOOLEAN
    /\ disk = InitDisk
    /\ inodes = InitInodes
    /\ InitConn
    /\ viso = NULL
    /\ iso3k3y = NULL
    /\ eiso = NULL
    /\ payload = NULL
    /\ peer = NULL
    /\ scan = NULL
    /\ ret = NULL

\* a host on which Stat of an open file does not fail
Init == InitCommon /\ faults = 0

\* a host on which Stat of an open file may fail
InitFaults == InitCommon /\ faults = MaxFaults

Next ==
    \/ \E cmd \in Commands : ClientSend(cmd)
    \/ ClientClose
    \/ ReadCommand
    \/ ReadEOF
    \/ ReadError
    \/ ReadDeadline
    \/ ServeOpenDir
    \/ ServeReadDir
    \/ ServeStatFile
    \/ ServeOpenFile
    \/ ServeReadFile
    \/ ServeReadFileCritical
    \/ ServeReadCD2048Critical
    \/ ServeReadDirEntry
    \/ ServeReadDirEntryV2
    \/ ServeCreateFile
    \/ ServeWriteFile
    \/ ServeDeleteFile
    \/ ServeMkdir
    \/ ServeRmdir
    \/ ServeGetDirSize
    \/ ServeUnknown

Spec == Init /\ [][Next]_vars

SpecFaults == InitFaults /\ [][Next]_vars

(***************************************************************************)
(* Properties.                                                             *)
(***************************************************************************)
\* the handles held in the slots of S
Held(S) == {S.CwdHandle, S.ROFile, S.WOFile} \ {NULL}

\* the step is the return of the handler of the command read last
HandlerReturns == pc = "handle" /\ done' = done + 1

\* the chunks the step writes to the socket
Written == SubSeq(wire', Len(wire) + 1, Len(wire'))

C1_Order ==
    /\ done <= nread
    /\ nread <= done + 1
    /\ \A i \in DOMAIN wire : wire[i].n <= nread
    /\ \A i, j \in DOMAIN wire : i < j => wire[i].n <= wire[j].n

C1_Step ==
    /\ nread' # nread => (done = nread /\ nread' = nread + 1 /\ wire' = wire)
    /\ wire' # wire =>
          /\ done = nread - 1
          /\ nread' = nread
          /\ Len(wire') > Len(wire)
          /\ SubSeq(wire', 1, Len(wire)) = wire
          /\ \A i \in DOMAIN Written : Written[i].n = nread

\* C1: on a connection, command k+1 is read from the socket only after the
\* handler of command k has returned, so after the whole reply to k was
\* written; a reply is written only while its command is the one read last;
\* the replies are on the wire in the order of arrival of their commands.
C1_Serialized == []C1_Order /\ [][C1_Step]_vars

\* C1 witness: the reply to the first command is on the wire, the second
\* command is being handled, and a third one waits unread in the socket.
C1_Witness ==
    /\ pc = "handle"
    /\ nread = 2
    /\ done = 1
    /\ FramesIn(inbuf) >= 1
    /\ wire # <<>>
    /\ wire[Len(wire)].n = 1

C2_Step ==
    (pc # "closed" /\ pc' = "closed") =>
        /\ sockClosed'
        /\ \A h \in Held(State) : ~handles'[h].open
        /\ Held(State') = {}

\* C2: whenever serveConn returns (deadline, EOF, read error, handler
\* error), every handle in a slot of the session (CwdHandle, ROFile,
\* WOFile) is closed and the socket is closed; nothing is held afterwards.
C2_TeardownCloses ==
    [](pc = "closed" => (sockClosed /\ Held(State) = {})) /\ [][C2_Step]_vars

\* C2 witness: the connection is torn down after a session that opened a
\* directory, a read-only file and a write-only file and replaced none of
\* them, so that each of the three was closed by the teardown.
C2_Witness ==
    /\ pc = "closed"
    /\ sockClosed
    /\ Len(handles) = 3
    /\ \A h \in DOMAIN handles : ~handles[h].open /\ handles[h].closes = 1
    /\ done = 3
    /\ Len(wire) = 3
    /\ \A i \in DOMAIN wire : wire[i].c.v[1] # -1

\* the last command read was cmd, its handler has returned and the
\* connection goes on
Completed(cmd) == pc = "read" /\ done = nread /\ nread >= 1 /\ cur = cmd

\* C3: once OPEN_DIR, OPEN_FILE or CREATE_FILE has completed, with or
\* without success, every handle the session ever opened is closed or is
\* the one in its slot.
C3_NoLeak ==
    (/\ pc \in {"read", "closed"}
     /\ done = nread
     /\ cur.op \in {CmdOpenDir, CmdOpenFile, CmdCreateFile}) =>
        \A h \in DOMAIN handles : handles[h].open => h \in Held(State)

ModifyingOps == {CmdCreateFile, CmdWriteFile, CmdDeleteFile, CmdMkdir, CmdRmdir}

C4_Step ==
    (~allowWrite /\ HandlerReturns /\ cur.op \in ModifyingOps) =>
        /\ Written = Tagged(<<ResultI32(-1)>>, nread)
        /\ pc' = "read"
        /\ ~sockClosed'
        /\ (inbuf' = <<>> \/ Head(inbuf').k = "frame")

\* C4: without AllowWrite every CREATE_FILE, WRITE_FILE, DELETE_FILE, MKDIR
\* and RMDIR is answered -1, the connection stays open, and what the server
\* reads next is the client's next command frame.
C4_ForbiddenAnswered == [][C4_Step]_vars

\* C5: without AllowWrite the tree under the root keeps its paths and
\* every file its bytes, whatever the client sends, and the session never
\* holds a write-only file.
C5_ReadOnly ==
    ~allowWrite =>
        /\ \A p \in DOMAIN disk : InsideRoot(p) => p \in DOMAIN InitDisk
        /\ \A p \in DOMAIN InitDisk :
              InsideRoot(p) =>
                  /\ p \in DOMAIN disk
                  /\ disk[p] = InitDisk[p]
                  /\ inodes[disk[p]] = InitInodes[InitDisk[p]]
        /\ State.WOFile = NULL

\* C5 witness: without AllowWrite three modifying commands were sent, the
\* last a CREATE_FILE of the existing file "/b", each was answered -1.
C5_Witness ==
    /\ ~allowWrite
    /\ Completed(PathCommand(CmdCreateFile, PathB))
    /\ done = 3
    /\ wire = Tagged(<<ResultI32(-1)>>, 1) \o Tagged(<<ResultI32(-1)>>, 2)
              \o Tagged(<<ResultI32(-1)>>, 3)

\* C6: no host call is made on a path outside the root, whatever path the
\* client sends.
C6_Confined == touched = {}

C7_Step ==
    (pc = "handle" /\ cur.op \notin CmdOpenFile..CmdReadDir /\ pc' # pc) =>
        /\ pc' = "closed"
        /\ sockClosed'
        /\ wire' = wire
        /\ inbuf' = inbuf
        /\ disk' = disk
        /\ inodes' = inodes
        /\ touched' = touched
        /\ Len(handles') = Len(handles)

\* C7: a frame whose opcode is not in 0x1224..0x1232 ends the connection:
\* nothing is written, nothing more is read from the socket, no file is
\* opened or touched.
C7_UnknownOpcodeAborts == [][C7_Step]_vars

\* C7 witness: the connection was closed on the frame with opcode 0x2412,
\* received after a command that was answered.
C7_Witness ==
    /\ pc = "closed"
    /\ cur = PlainCommand(CmdCustom0)
    /\ nread = 2
    /\ done = 2
    /\ Len(wire) = 1
    /\ wire[1].n = 1

NotFoundOps ==
    {CmdStatFile, CmdOpenFile, CmdOpenDir, CmdDeleteFile, CmdMkdir, CmdRmdir}

\* the path of cmd does not exist (for OPEN_FILE the cleaned path, which is
\* not CLOSEFILE; for MKDIR the directory cannot be made)
Missing(cmd) ==
    CASE cmd.op = CmdOpenFile ->
            /\ BaseName(Clean(cmd.path)) # CloseFileName
            /\ ~fsStat(W, Clean(cmd.path)).ok
      [] cmd.op = CmdMkdir -> ~fsMkdir(W, cmd.path).ok
      [] OTHER -> ~fsStat(W, cmd.path).ok

ErrorReply(op) ==
    CASE op = CmdStatFile -> <<Chunk("stat", <<-1, 0, 0, 0, 0>>)>>
      [] op = CmdOpenFile -> <<Chunk("openfile", <<-1, 0>>)>>
      [] OTHER -> <<Chunk("i32", <<-1>>)>>

C8_Step ==
    (HandlerReturns /\ cur.op \in NotFoundOps /\ Missing(cur)) =>
        /\ Written = Tagged(ErrorReply(cur.op), nread)
        /\ pc' = "read"
        /\ ~sockClosed'
        /\ inbuf' = inbuf

\* C8: STAT_FILE, OPEN_FILE, OPEN_DIR, DELETE_FILE, MKDIR or RMDIR on a
\* path that does not exist is answered with the operation's error reply
\* (size -1, or -1) and the server goes on to read the next command.
C8_NotFoundAnswered == [][C8_Step]_vars

\* C8 witness: STAT_FILE of the missing "/n" was answered size -1 and the
\* loop is back at reading, the connection open.
C8_Witness ==
    /\ Completed(PathCommand(CmdStatFile, PathN))
    /\ ~sockClosed
    /\ wire # <<>>
    /\ wire[Len(wire)] = [n |-> nread, c |-> Chunk("stat", <<-1, 0, 0, 0, 0>>)]

\* the read-only file of the session is a regular file
ROFileRegular == State.ROFile # NULL /\ ~inodes[handles[State.ROFile].ino].dir

ROFileData == inodes[handles[State.ROFile].ino].data

C9_Step ==
    (HandlerReturns /\ cur.op = CmdReadFile /\ ROFileRegular /\ ~cur.hi) =>
        LET limit  == cur.a
            offset == cur.b
            n      == Min(limit, Max(0, Len(ROFileData) - offset))
            bytes  == SubSeq(ROFileData, offset + 1, offset + n)
        IN  /\ Len(Written) >= 1
            /\ Written[1] = [n |-> nread, c |-> Chunk("i32", <<n>>)]
            /\ n > 0 => Len(Written) = 2
                         /\ Written[2] = [n |-> nread, c |-> Chunk("raw", bytes)]
            /\ n = 0 => Len(Written) = 1

\* C9: READ_FILE(limit, offset) on an open read-only file writes the i32
\* bytes_read = min(limit, size - offset) and then exactly these bytes of
\* the file, from offset on.
C9_HeaderThenBytes == [][C9_Step]_vars

C10_Step ==
    (HandlerReturns /\ cur.op = CmdReadFile /\ (~ROFileRegular \/ cur.hi)) =>
        /\ Len(Written) = 1
        /\ Written[1].c.t = "i32"
        /\ Written[1].c.v[1] < 0
        /\ pc' = "read"
        /\ ~sockClosed'

\* C10: a READ_FILE that fails (no read-only file, Seek fails, Read fails)
\* is answered with a negative bytes_read and the server goes on to read
\* the next command.
C10_FailureAnswered == [][C10_Step]_vars

\* the step is the end of the handling of the command read last: the
\* handler has returned, or the process has died in it
ServeStep == pc = "handle" /\ pc' # "handle"

C11_Step ==
    (/\ ServeStep
     /\ cur.op = CmdReadFileCritical
     /\ ROFileRegular
     /\ ~cur.hi
     /\ Len(ROFileData) >= cur.b + cur.a) =>
        LET limit  == cur.a
            offset == cur.b
            bytes  == SubSeq(ROFileData, offset + 1, offset + limit)
        IN  /\ Written = Tagged(IF limit > 0 THEN <<Chunk("raw", bytes)>> ELSE <<>>,
                                nread)
            /\ pc' = "read"
            /\ ~sockClosed'

\* C11: READ_FILE_CRITICAL(limit, offset) on an open read-only file that
\* holds offset + limit bytes writes exactly the limit bytes from offset
\* on, without a header, and the server goes on to read the next command.
C11_CriticalStreams == [][C11_Step]_vars

\* the sector size READ_CD_2048_CRITICAL streams in
readSize == 2048

\* the bytes of the read-only file, none when it is a directory
ROFileBytes == IF ROFileRegular THEN ROFileData ELSE <<>>

\* the critical read cmd cannot be served in full: no read-only file, a
\* Seek that fails, or a file that ends before the requested bytes
CannotDeliver(cmd) ==
    \/ State.ROFile = NULL
    \/ /\ cmd.op = CmdReadFileCritical
       /\ (cmd.hi \/ Len(ROFileBytes) < cmd.b + cmd.a)
    \/ /\ cmd.op = CmdReadCD2048Critical
       /\ cmd.a > 0
       /\ Len(ROFileBytes)
            < psxPrefixSize + (cmd.b + cmd.a - 1) * State.CDSectorSize + readSize

C12_Step ==
    (/\ ServeStep
     /\ cur.op \in {CmdReadFileCritical, CmdReadCD2048Critical}
     /\ CannotDeliver(cur)) =>
        /\ pc' \in {"closed", "crashed"}
        /\ Written = <<>>

\* C12: a READ_FILE_CRITICAL or READ_CD_2048_CRITICAL that cannot deliver
\* the requested amount (no read-only file, Seek fails, the file ends
\* early) ends the connection and writes no reply.
C12_CriticalAborts == [][C12_Step]_vars

\* the bytes of the raw chunks among tagged chunks, in order
RECURSIVE RawBytes(_)
RawBytes(tagged) ==
    IF tagged = <<>> THEN <<>>
    ELSE (IF Head(tagged).c.t = "raw" THEN Head(tagged).c.v ELSE <<>>)
         \o RawBytes(Tail(tagged))

\* readSize bytes of each of n sectors of data from sector start on, the
\* sectors size bytes apart behind the prefix
RECURSIVE CDStream(_, _, _, _)
CDStream(data, start, n, size) ==
    IF n = 0 THEN <<>>
    ELSE SubSeq(data, psxPrefixSize + start * size + 1,
                psxPrefixSize + start * size + readSize)
         \o CDStream(data, start + 1, n - 1, size)

C13_Step ==
    (/\ ServeStep
     /\ cur.op = CmdReadCD2048Critical
     /\ ROFileRegular
     /\ State.CDSectorSize > 0
     /\ ~CannotDeliver(cur)) =>
        LET sectorsToRead == cur.a
            startSector   == cur.b
        IN  /\ \A i \in DOMAIN Written : Written[i].c.t = "raw"
            /\ RawBytes(Written)
                 = CDStream(ROFileData, startSector, sectorsToRead, State.CDSectorSize)
            /\ pc' = "read"

\* C13: READ_CD_2048_CRITICAL, whose body is sectors_to_read then
\* start_sector, writes for each sector from start_sector on, in order,
\* the 2048 bytes at 24 + i * sector size, sectors_to_read * 2048 bytes in
\* all and nothing else, and the server goes on.
C13_SectorsStreamed == [][C13_Step]_vars

\* the host path the client path p names under the root (p without "..")
Under(p) == RootPath \o p.comps

\* p names an existing directory under the root
IsDirectory(p) == Under(p) \in DOMAIN disk /\ inodes[disk[Under(p)]].dir

C14_Step ==
    (/\ HandlerReturns
     /\ cur.op = CmdOpenDir
     /\ \A i \in DOMAIN cur.path.comps : cur.path.comps[i] # DotDot) =>
        /\ Written = Tagged(<<ResultI32(IF IsDirectory(cur.path) THEN 0 ELSE -1)>>,
                            nread)
        /\ pc' = "read"

\* C14: OPEN_DIR(path) is answered 0 exactly when path exists and is a
\* directory, and -1 otherwise, a regular file included.
C14_OpenDirReply == [][C14_Step]_vars

\* C14 witness: OPEN_DIR("/a"), a directory, was answered 0 and then
\* OPEN_DIR("/b"), a regular file, was answered -1.
C14_Witness ==
    /\ Completed(PathCommand(CmdOpenDir, PathB))
    /\ done = 2
    /\ wire = Tagged(<<ResultI32(0)>>, 1) \o Tagged(<<ResultI32(-1)>>, 2)
    /\ Len(handles) = 2
    /\ handles[1].name = Under(PathA)

C15_Step ==
    (HandlerReturns /\ cur.op = CmdOpenDir /\ State.CwdHandle # NULL) =>
        /\ ~handles'[State.CwdHandle].open
        /\ State'.CwdHandle # State.CwdHandle

\* C15: every OPEN_DIR, whether or not its path can be opened, closes the
\* directory handle the session held before and takes it out of the
\* session, so that no later READ_DIR_ENTRY reads the earlier directory.
C15_OpenDirClosesPrevious == [][C15_Step]_vars

ReadDirEntryOps == {CmdReadDirEntry, CmdReadDirEntryV2}

\* the names the current directory handle has not yet returned
Remaining ==
    LET hd == handles[State.CwdHandle] IN
    IF ~inodes[hd.ino].dir THEN <<>>
    ELSE IF hd.listed THEN hd.ents
    ELSE IF hd.name \in DOMAIN disk /\ disk[hd.name] = hd.ino
         THEN Listing(disk, hd.name) ELSE <<>>

\* the header of the reply to READ_DIR_ENTRY[_V2]: size, filename_len
EntryHeader(chunk) == <<chunk.v[1], chunk.v[2]>>

C16_Step ==
    (/\ HandlerReturns
     /\ cur.op \in ReadDirEntryOps
     /\ State.CwdHandle # NULL
     /\ Remaining # <<>>
     /\ \A i \in DOMAIN Remaining :
           Append(handles[State.CwdHandle].name, Remaining[i]) \in DOMAIN disk) =>
        LET name == Head(Remaining)
            ino  == inodes[disk[Append(handles[State.CwdHandle].name, name)]]
        IN  /\ Len(Written) = 2
            /\ EntryHeader(Written[1].c)
                 = <<IF ino.dir THEN 0 ELSE Len(ino.data), Len(name)>>
            /\ Written[2].c.name = name
            /\ State'.CwdHandle = State.CwdHandle
            /\ Remaining' = Tail(Remaining)
            /\ pc' = "read"
            /\ ~sockClosed'

\* C16: after a successful OPEN_DIR on a directory of k entries, each of k
\* successive READ_DIR_ENTRY or READ_DIR_ENTRY_V2 returns the next entry
\* not yet returned, as the header carrying its size and filename_len and
\* then exactly the bytes of its name, and the connection stays open (the
\* k+1-th then finds no entry left, the case of C17).
C16_EntriesInTurn == [][C16_Step]_vars

\* the end-of-directory sentinel: size -1, filename_len 0
IsSentinel(chunk) ==
    /\ chunk.t \in {"direntryv1", "direntryv2"}
    /\ EntryHeader(chunk) = <<-1, 0>>

C17_Step ==
    (HandlerReturns /\ cur.op \in ReadDirEntryOps) =>
        /\ (State.CwdHandle # NULL /\ Remaining = <<>>) =>
              (Len(Written) = 1 /\ IsSentinel(Written[1].c))
        /\ (Written # <<>> /\ IsSentinel(Written[1].c)) =>
              /\ Len(Written) = 1
              /\ State'.CwdHandle = NULL
              /\ State.CwdHandle # NULL => ~handles'[State.CwdHandle].open
              /\ pc' = "read"

\* C17: a READ_DIR_ENTRY or READ_DIR_ENTRY_V2 that finds the directory at
\* its end, or cannot read it, replies the sentinel size -1, filename_len
\* 0; whenever the sentinel is replied the directory handle is closed and
\* the session holds no current directory.
C17_EndOfDirectory == [][C17_Step]_vars

\* C17 witness: OPEN_DIR("/a"), then READ_DIR_ENTRY_V2 at the end of the
\* empty directory: the sentinel is on the wire, the handle is closed and
\* out of the session, the connection goes on.
C17_Witness ==
    /\ Completed(PlainCommand(CmdReadDirEntryV2))
    /\ done = 2
    /\ Len(handles) = 1
    /\ handles[1].name = Under(PathA)
    /\ ~handles[1].open
    /\ State.CwdHandle = NULL
    /\ Len(wire) = 2
    /\ IsSentinel(wire[2].c)
    /\ ~sockClosed

C18_Step ==
    (/\ HandlerReturns
     /\ cur.op = CmdOpenFile
     /\ BaseName(Clean(cur.path)) = CloseFileName) =>
        /\ State.ROFile # NULL => ~handles'[State.ROFile].open
        /\ State'.ROFile = NULL
        /\ Len(handles') = Len(handles)
        /\ Written = Tagged(<<Chunk("openfile", <<0, 0>>)>>, nread)
        /\ pc' = "read"

Quiet ==
    \/ pc \in {"closed", "crashed"}
    \/ pc = "read" /\ inbuf = <<>> /\ done = nread

\* C19: with writes allowed, once the server is through with a session
\* that sent CREATE_FILE("/n"), WRITE_FILE with the 3 bytes "ABC" and a
\* second CREATE_FILE("/n"), the file "/n" exists under the root and holds
\* exactly "ABC".
C19_CreateWriteClose ==
    (allowWrite /\ script = Len(ScriptCreateWrite) /\ Quiet) =>
        /\ Under(PathN) \in DOMAIN disk
        /\ inodes[disk[Under(PathN)]] = FileInode(ABC)

\* the sum of the sizes of the regular files in the tree the client path p
\* names
TreeSize(p) == SumSizes(W, {q \in DOMAIN disk : IsPrefixSeq(Under(p), q)})

C20_Step ==
    (/\ HandlerReturns
     /\ cur.op = CmdGetDirSize
     /\ \A i \in DOMAIN cur.path.comps : cur.path.comps[i] # DotDot) =>
        /\ Written = Tagged(<<Chunk("i64", <<TreeSize(cur.path)>>)>>, nread)
        /\ pc' = "read"

\* C20: GET_DIR_SIZE(path) is answered the sum of the sizes of the regular
\* files in the tree under path, and of no file outside that tree.
C20_DirSizeOfPath == [][C20_Step]_vars

(***************************************************************************)
(* The calls on the virtual ISO.  ret keeps the call made last: its        *)
(* arguments, the offset it worked at, whether the ISO was closed, and     *)
(* what it returned.                                                       *)
(***************************************************************************)
\* number of calls made on a file object under test
MaxCalls == 2

\* number of calls of Close on a file object under test
MaxCloses == 2

\* buffer lengths of Read and ReadAt
ReadLens == {0, sectorSize, 2 * sectorSize}

\* offsets of ReadAt and Seek: the start of the image, of each file, of the
\* pad area, the end of the image and the byte after it
Offsets(V) ==
    {bytesOf(0), V.padAreaStart, V.totalSize, bAdd(V.totalSize, bytesOf(1))}
    \cup {sectorsBytes(V.files[i].rLBA) : i \in DOMAIN V.files}

\* offsets of Seek relative to the current offset or to the end
RelativeOffsets == {bytesOf(-1), bytesOf(0), bytesOf(1)}

Call(op, len, off, whence, closed, res, crash, calls) ==
    [op |-> op, len |-> len, off |-> off, whence |-> whence, closed |-> closed,
     res |-> res, crash |-> crash, calls |-> calls]

NoCall == Call("none", 0, bytesOf(0), 0, FALSE, NULL, FALSE, 0)

\* a Read or ReadAt that returned res, or panicked
Returned(op, len, off, closed, calls, res) ==
    Call(op, len, off, SeekStart, closed, res, res.crash, calls)

\* VirtualISO.Read
VisoRead(n) ==
    /\ ~ret.crash
    /\ ret.calls < MaxCalls
    /\ ret' = Returned("Read", n, viso.offset, viso.isClosed, ret.calls + 1,
                       read(viso, n, viso.offset))
    /\ viso' = [viso EXCEPT !.offset = bAdd(@, bytesOf(ret'.res.n))]
    /\ payload' = readOpened(payload, readOpens(viso, n, viso.offset))
    /\ UNCHANGED <<connVars, iso3k3y, eiso, peer, scan>>

\* VirtualISO.ReadAt
VisoReadAt(n, off) ==
    /\ ~ret.crash
    /\ ret.calls < MaxCalls
    /\ ret' = Returned("ReadAt", n, off, viso.isClosed, ret.calls + 1,
                       read(viso, n, off))
    /\ payload' = readOpened(payload, readOpens(viso, n, off))
    /\ UNCHANGED <<connVars, iso3k3y, viso, eiso, peer, scan>>

\* VirtualISO.Seek
VisoSeek(offset, whence) ==
    /\ ~ret.crash
    /\ ret.calls < MaxCalls
    /\ ret' = Call("Seek", 0, offset, whence, viso.isClosed,
                   Seek(viso, offset, whence), FALSE, ret.calls + 1)
    /\ viso' = IF ret'.res.err = "nil"
               THEN [viso EXCEPT !.offset = ret'.res.pos] ELSE viso
    /\ UNCHANGED <<connVars, iso3k3y, eiso, payload, peer, scan>>

\* VirtualISO.Close
VisoClose ==
    /\ ~ret.crash
    /\ payload.closeCalls < MaxCloses
    /\ viso' = [viso EXCEPT !.isClosed = TRUE]
    /\ ret' = Call("Close", 0, bytesOf(0), SeekStart, viso.isClosed, NULL, FALSE,
                   ret.calls)
    /\ payload' = [VirtualISOClose(viso, payload) EXCEPT !.closeCalls = @ + 1]
    /\ UNCHANGED <<connVars, iso3k3y, eiso, peer, scan>>

\* the connection variables of a server that has accepted no command
IdleConn ==
    /\ allowWrite = FALSE
    /\ faults = 0
    /\ disk = InitDisk
    /\ inodes = InitInodes
    /\ InitConn

\* a virtual ISO just built over one of the host trees
InitVISO ==
    /\ IdleConn
    /\ viso \in {NewVirtualISO(tree) : tree \in Trees}
    /\ iso3k3y = NULL
    /\ eiso = NULL
    /\ payload = NoPayload(viso)
    /\ peer = NULL
    /\ scan = NULL
    /\ ret = NoCall

NextVISO ==
    \/ \E n \in ReadLens : VisoRead(n)
    \/ \E n \in ReadLens : \E off \in Offsets(viso) : VisoReadAt(n, off)
    \/ \E off \in Offsets(viso) : VisoSeek(off, SeekStart)
    \/ \E off \in RelativeOffsets : \E whence \in {SeekCurrent, SeekEnd, 3} :
            VisoSeek(off, whence)
    \/ VisoClose

SpecVISO == InitVISO /\ [][NextVISO]_vars

(***************************************************************************)
(* Properties of the virtual ISO (SpecVISO).                               *)
(***************************************************************************)
\* C22: the total size of every virtual ISO is a whole number of blocks of
\* 32 sectors of 2048 bytes.
C22_TotalSizeAligned ==
    /\ viso.totalSize.b = 0
    /\ viso.totalSize.s % 32 = 0
    /\ viso.totalSize.s > 0

\* a virtual ISO over a tree with files whose volume did not end on a
\* block of 32 sectors
C22_Witness ==
    /\ viso.files # <<>>
    /\ viso.padAreaSize # sectorsBytes(basePadSectors)
    /\ viso.totalSize = bAdd(viso.padAreaStart, viso.padAreaSize)

\* the bytes a file of the image holds in its sectors: its content, then
\* zeroes up to the end of its last sector
PaddedFile(fileItem) ==
    [i \in 1..intOf(fileItem.size) |-> HostByte(fileItem.host, 0, i - 1)]
    \o zeroes(sectors(fileItem.size) * sectorSize - intOf(fileItem.size))

\* the call kept in ret read the whole of the sectors of the file
ReadsWholeFile(fileItem) ==
    /\ ret.op \in {"Read", "ReadAt"}
    /\ ~ret.closed
    /\ fileItem.size.s < 2
    /\ ret.off = sectorsBytes(fileItem.rLBA)
    /\ ret.len = sectors(fileItem.size) * sectorSize

\* C23: a read of ceil(s / 2048) * 2048 bytes at the offset of a file of
\* size s returns the s bytes of the file followed by zero bytes.
C23_FileThenZeroes ==
    \A i \in DOMAIN viso.files :
        ReadsWholeFile(viso.files[i])
            => /\ ~ret.crash
               /\ ret.res.data = PaddedFile(viso.files[i])
               /\ ret.res.n = ret.len

\* a file of 2049 bytes read over its two sectors
C23_Witness ==
    \E i \in DOMAIN viso.files :
        /\ ReadsWholeFile(viso.files[i])
        /\ viso.files[i].size = bytesOf(2049)
        /\ Len(ret.res.data) = 2 * sectorSize

\* C24: a read of an open virtual ISO at an offset at or past totalSize
\* returns io.EOF and no bytes.
C24_EOFPastEnd ==
    (/\ ret.op \in {"Read", "ReadAt"}
     /\ ~ret.closed
     /\ ~bLess(ret.off, viso.totalSize))
        => /\ ~ret.crash
           /\ ret.res.n = 0
           /\ ret.res.data = <<>>
           /\ ret.res.err = "EOF"

\* a Read with a buffer of a sector after a Seek to the end of the image
C24_Witness ==
    /\ ret.op = "Read"
    /\ ~ret.closed
    /\ ret.len = sectorSize
    /\ ret.off = viso.totalSize
    /\ ret.res.err = "EOF"

\* C25: a file of 0xFFFFFFFF bytes has one directory record; a file of
\* 0x100000000 bytes has two, the first with the multi-extent flag and the
\* second without it.
C25_Extents ==
    \A i \in DOMAIN viso.files :
        /\ viso.files[i].size = maxPartSize
            => /\ Len(viso.dirEntry[i]) = 1
               /\ viso.dirEntry[i][1].FileFlags # dirFlagMultiExtent
        /\ viso.files[i].size = bAdd(maxPartSize, bytesOf(1))
            => /\ Len(viso.dirEntry[i]) = 2
               /\ viso.dirEntry[i][1].FileFlags = dirFlagMultiExtent
               /\ viso.dirEntry[i][2].FileFlags # dirFlagMultiExtent
               /\ bAdd(viso.dirEntry[i][1].ExtentLength,
                       viso.dirEntry[i][2].ExtentLength) = viso.files[i].size

\* a virtual ISO over a file of 0xFFFFFFFF bytes and a file of 0x100000000
C25_Witness ==
    /\ Len(viso.files) = 2
    /\ viso.files[1].size = maxPartSize
    /\ viso.files[2].size = bAdd(maxPartSize, bytesOf(1))
    /\ Len(viso.dirEntry[1]) = 1
    /\ Len(viso.dirEntry[2]) = 2

\* C26: Seek(n, io.SeekEnd) on an open virtual ISO moves to totalSize + n,
\* and fails when totalSize + n is outside [0, totalSize].
C26_SeekEnd ==
    (ret.op = "Seek" /\ ret.whence = SeekEnd /\ ~ret.closed)
        => LET pos == bAdd(viso.totalSize, ret.off) IN
           IF bLess(pos, bytesOf(0)) \/ bLess(viso.totalSize, pos)
           THEN ret.res.err # "nil"
           ELSE ret.res.err = "nil" /\ ret.res.pos = pos /\ viso.offset = pos

(***************************************************************************)
(* pkg/fs, the 3k3y overlay (ISO3k3y), exercised on its own over a plain   *)
(* host file of InnerSize bytes.                                           *)
(***************************************************************************)
\* the size of the file under the overlay
InnerSize == 4608

\* the byte at offset o of the file under the overlay, never zero
InnerByte(o) == (o % 255) + 1

\* os.File.Read and ReadAt with a buffer of n bytes at offset off of the
\* file under the overlay: [n, err, data]
fileRead(n, off) ==
    LET m == Min(n, Max(InnerSize - off, 0)) IN
    [n |-> m,
     err |-> IF m = 0 /\ n > 0 THEN "EOF" ELSE "nil",
     data |-> [i \in 1..m |-> InnerByte(off + i - 1)]]

fileReadAt(n, off) ==
    LET m == Min(n, Max(InnerSize - off, 0)) IN
    [n |-> m,
     err |-> IF m < n THEN "EOF" ELSE "nil",
     data |-> [i \in 1..m |-> InnerByte(off + i - 1)]]

\* ISO3k3y.clear3k3yData on the bytes data read at offset start:
\* [data, crash]; the loop index starts at _3k3yMaskedDataBegin - start and
\* data[i] with a negative i panics
clear3k3yData(start, data) ==
    LET end == start + Len(data)
        first == MaskedDataBegin - start
        last == Min(MaskedDataEnd, end) - start
    IN  IF start >= MaskedDataEnd \/ end < MaskedDataBegin
        THEN [data |-> data, crash |-> FALSE]
        ELSE IF first < last /\ first < 0
        THEN [data |-> <<>>, crash |-> TRUE]
        ELSE [data |-> [i \in 1..Len(data) |->
                          IF i - 1 >= first /\ i - 1 < last THEN 0 ELSE data[i]],
              crash |-> FALSE]

\* the overlay's Read and ReadAt after the file under it returned r at
\* offset start: [n, err, data, crash]
cleared(r, start) ==
    IF r.err # "nil" \/ r.n = 0 THEN r @@ [crash |-> FALSE]
    ELSE [n |-> r.n, err |-> "nil"] @@ clear3k3yData(start, r.data)

\* ISO3k3y.Read with a buffer of n bytes
ISO3k3yRead(iso, n) == cleared(fileRead(n, iso.offset), iso.offset)

\* ISO3k3y.ReadAt
ISO3k3yReadAt(iso, n, off) == cleared(fileReadAt(n, off), off)

\* buffer lengths of the reads through the overlay
OverlayLens == {0, 1, 16, MaskedDataSize, 2 * MaskedDataSize}

\* offsets of the reads through the overlay: before the masked data, at its
\* first byte, inside it, at its last byte, after it, at the end of the file
OverlayOffsets ==
    {0, MaskedDataBegin - 16, MaskedDataBegin - 1, MaskedDataBegin,
     MaskedDataBegin + 1, MaskedDataBegin + 16, MaskedDataEnd - 1,
     MaskedDataEnd, InnerSize - 16, InnerSize}

\* ISO3k3y.Read
OverlayRead(n) ==
    /\ ~ret.crash
    /\ ret.calls < MaxCalls
    /\ ret' = Returned("Read", n, iso3k3y.offset, FALSE, ret.calls + 1,
                       ISO3k3yRead(iso3k3y, n))
    /\ iso3k3y' = [iso3k3y EXCEPT !.offset = @ + ret'.res.n]
    /\ UNCHANGED <<connVars, viso, eiso, payload, peer, scan>>

\* ISO3k3y.ReadAt
OverlayReadAt(n, off) ==
    /\ ~ret.crash
    /\ ret.calls < MaxCalls
    /\ ret' = Returned("ReadAt", n, off, FALSE, ret.calls + 1,
                       ISO3k3yReadAt(iso3k3y, n, off))
    /\ UNCHANGED <<connVars, viso, iso3k3y, eiso, payload, peer, scan>>

\* ISO3k3y.Seek(off, io.SeekStart): the file's Seek, then the offset is kept
OverlaySeek(off) ==
    /\ ~ret.crash
    /\ ret.calls < MaxCalls
    /\ ret' = Call("Seek", 0, off, SeekStart, FALSE, [pos |-> off, err |-> "nil"],
                   FALSE, ret.calls + 1)
    /\ iso3k3y' = [iso3k3y EXCEPT !.offset = off]
    /\ UNCHANGED <<connVars, viso, eiso, payload, peer, scan>>

\* NewISO3k3y over a file just opened
Init3k3y ==
    /\ IdleConn
    /\ viso = NULL
    /\ iso3k3y = [offset |-> 0]
    /\ eiso = NULL
    /\ payload = NULL
    /\ peer = NULL
    /\ scan = NULL
    /\ ret = NoCall

Next3k3y ==
    \/ \E n \in OverlayLens : OverlayRead(n)
    \/ \E n \in OverlayLens : \E off \in OverlayOffsets : OverlayReadAt(n, off)
    \/ \E off \in OverlayOffsets : OverlaySeek(off)

Spec3k3y == Init3k3y /\ [][Next3k3y]_vars

\* the bytes of the file under the overlay from offset off, n of them at
\* most, with the masked data zeroed
Masked(n, off) ==
    [i \in 1..Min(n, Max(InnerSize - off, 0)) |->
        IF off + i - 1 >= MaskedDataBegin /\ off + i - 1 < MaskedDataEnd
        THEN 0 ELSE InnerByte(off + i - 1)]

\* C30: a read through the overlay, wherever it starts and whatever its
\* length, returns zero for the bytes of [0xF70, 0x1070) and the bytes of
\* the file under the overlay everywhere else.
C30_MaskedEverywhere ==
    ret.op \in {"Read", "ReadAt"}
        => /\ ~ret.crash
           /\ ret.res.data = Masked(ret.len, ret.off)

(***************************************************************************)
(* A host with disc images and a game tree, served over a connection: /r   *)
(* holds GAME1 with PS3_GAME/PARAM.SFO, PS3ISO with the images and their   *)
(* key files, and REDKEY with further key files.                           *)
(***************************************************************************)
\* PARAM.SFO with the fields TITLE and TITLE_ID: the header, two index
\* entries, the keys from 52 on and the values from 68 on
ParamSFO ==
    <<0, 80, 83, 70, 1, 1, 0, 0, 52, 0, 0, 0, 68, 0, 0, 0, 2, 0, 0, 0,
      0, 0, 4, 2, 5, 0, 0, 0, 8, 0, 0, 0, 0, 0, 0, 0,
      6, 0, 4, 2, 10, 0, 0, 0, 16, 0, 0, 0, 8, 0, 0, 0,
      84, 73, 84, 76, 69, 0, 84, 73, 84, 76, 69, 95, 73, 68, 0, 0,
      71, 97, 109, 101, 0, 0, 0, 0,
      66, 76, 69, 83, 48, 48, 48, 48, 49, 0, 0, 0, 0, 0, 0, 0>>

\* the data1 key number k
Data1Key(k) == [i \in 1..encryptionKeySize |-> (k * 16 + i * 7) % 256]

\* a key file: the key in hexadecimal digits
HexDigit(d) == IF d < 10 THEN 48 + d ELSE 87 + d

DkeyFile(key) ==
    [j \in 1..(2 * encryptionKeySize) |->
        HexDigit(IF j % 2 = 1 THEN key[(j + 1) \div 2] \div 16
                 ELSE key[j \div 2] % 16)]

\* a region header: the count, four bytes of padding, the regions
RECURSIVE RegionBytes(_)
RegionBytes(regions) ==
    IF regions = <<>> THEN <<>>
    ELSE <<0, 0, 0, Head(regions)[1], 0, 0, 0, Head(regions)[2]>>
         \o RegionBytes(Tail(regions))

RegionHeader(count, regions) == <<0, 0, 0, count, 0, 0, 0, 0>> \o RegionBytes(regions)

\* a header that NewEncryptedISO accepts
GoodHeader == RegionHeader(2, <<<<0, 16>>, <<32, 48>>>>)

\* region_count < 2
HeaderOneRegion == RegionHeader(1, <<<<0, 16>>>>)

\* regions[0].start # 0
HeaderLateStart == RegionHeader(2, <<<<1, 16>>, <<32, 48>>>>)

\* a region with end <= start
HeaderEmptyRegion == RegionHeader(2, <<<<0, 16>>, <<32, 32>>>>)

\* start[1] < end[0]
HeaderOverlap == RegionHeader(2, <<<<0, 16>>, <<8, 48>>>>)

\* an image of MaskedDataEnd bytes: a region header, then at 0xF70 the 16
\* bytes of mark and at 0xF80 the 16 bytes of key
Image(header, mark, key) ==
    [i \in 1..MaskedDataEnd |->
        IF i <= Len(header) THEN header[i]
        ELSE IF i > MaskedDataBegin /\ i <= MaskedDataBegin + WatermarkSize
        THEN mark[i - MaskedDataBegin]
        ELSE IF /\ i > MaskedDataBegin + EncryptionKeyPlacement
                /\ i <= MaskedDataBegin + EncryptionKeyPlacement + encryptionKeySize
        THEN key[i - MaskedDataBegin - EncryptionKeyPlacement]
        ELSE (i % 251) + 1]

\* 16 bytes that are neither watermark
NoWatermark == [DecWatermark EXCEPT ![WatermarkSize] = 0]

NameGame1 == <<"G", "A", "M", "E", "1">>

NamePS3Game == paramSFOPath[1]

NameParamSFO == paramSFOPath[2]

NamePS3ISO == <<"P", "S", "3", "I", "S", "O">>

IsoName(stem) == stem \o isoExt

DkeyName(stem) == stem \o dkeyExt

\* the images: a plain one, one with its key beside it, the two 3k3y
\* variants, and four whose region header is malformed
StemPlain == <<"a">>

StemKeyed == <<"k">>

Stem3k3yE == <<"e">>

Stem3k3yD == <<"d">>

StemOneRegion == <<"m", "1">>

StemLateStart == <<"m", "2">>

StemEmptyRegion == <<"m", "3">>

StemOverlap == <<"m", "4">>

\* the image with its key beside it carries the extension in capitals
NameKeyedISO == StemKeyed \o <<".", "I", "S", "O">>

MalformedStems == {StemOneRegion, StemLateStart, StemEmptyRegion, StemOverlap}

ImageInodes ==
    <<DirInode,                                                \* 1  /r
      DirInode,                                                \* 2  GAME1
      DirInode,                                                \* 3  PS3_GAME
      FileInode(ParamSFO),                                     \* 4  PARAM.SFO
      DirInode,                                                \* 5  PS3ISO
      FileInode(Image(GoodHeader, NoWatermark, Data1Key(1))),  \* 6  a.iso
      FileInode(GoodHeader),                                   \* 7  k.ISO
      FileInode(DkeyFile(Data1Key(2))),                        \* 8  k.dkey
      FileInode(Image(GoodHeader, DecWatermark, Data1Key(3))), \* 9  e.iso
      FileInode(Image(GoodHeader, EncWatermark, Data1Key(4))), \* 10 d.iso
      FileInode(HeaderOneRegion),                              \* 11 m1.iso
      FileInode(DkeyFile(Data1Key(5))),                        \* 12 m1.dkey
      FileInode(HeaderLateStart),                              \* 13 m2.iso
      FileInode(HeaderEmptyRegion),                            \* 14 m3.iso
      FileInode(HeaderOverlap),                                \* 15 m4.iso
      FileInode(DkeyFile(Data1Key(6))),                        \* 16 m4.dkey
      DirInode,                                                \* 17 REDKEY
      FileInode(DkeyFile(Data1Key(7))),                        \* 18 m2.dkey
      FileInode(DkeyFile(Data1Key(8)))>>                       \* 19 m3.dkey

ImageDisk ==
    (RootPath :> 1)
    @@ (<<RootName, NameGame1>> :> 2)
    @@ (<<RootName, NameGame1, NamePS3Game>> :> 3)
    @@ (<<RootName, NameGame1, NamePS3Game, NameParamSFO>> :> 4)
    @@ (<<RootName, NamePS3ISO>> :> 5)
    @@ (<<RootName, NamePS3ISO, IsoName(StemPlain)>> :> 6)
    @@ (<<RootName, NamePS3ISO, NameKeyedISO>> :> 7)
    @@ (<<RootName, NamePS3ISO, DkeyName(StemKeyed)>> :> 8)
    @@ (<<RootName, NamePS3ISO, IsoName(Stem3k3yE)>> :> 9)
    @@ (<<RootName, NamePS3ISO, IsoName(Stem3k3yD)>> :> 10)
    @@ (<<RootName, NamePS3ISO, IsoName(StemOneRegion)>> :> 11)
    @@ (<<RootName, NamePS3ISO, DkeyName(StemOneRegion)>> :> 12)
    @@ (<<RootName, NamePS3ISO, IsoName(StemLateStart)>> :> 13)
    @@ (<<RootName, NamePS3ISO, IsoName(StemEmptyRegion)>> :> 14)
    @@ (<<RootName, NamePS3ISO, IsoName(StemOverlap)>> :> 15)
    @@ (<<RootName, NamePS3ISO, DkeyName(StemOverlap)>> :> 16)
    @@ (<<RootName, redkeyDir>> :> 17)
    @@ (<<RootName, redkeyDir, DkeyName(StemLateStart)>> :> 18)
    @@ (<<RootName, redkeyDir, DkeyName(StemEmptyRegion)>> :> 19)

\* "/***PS3***/GAME1", "/***DVD***/GAME1" and "/GAME1"
PathVirtualPS3Game == ClientPath(TRUE, <<MaskPS3, NameGame1>>)

PathVirtualDVDGame == ClientPath(TRUE, <<MaskDVD, NameGame1>>)

PathGame == ClientPath(TRUE, <<NameGame1>>)

\* "/PS3ISO/<name>"
PathImage(name) == ClientPath(TRUE, <<NamePS3ISO, name>>)

ImageNames ==
    {NameKeyedISO}
    \cup {IsoName(s) : s \in {StemPlain, Stem3k3yE, Stem3k3yD} \cup MalformedStems}

ImageCommands ==
    {PathCommand(CmdOpenDir, p) : p \in {PathVirtualPS3Game, PathGame}}
    \cup {PathCommand(CmdOpenFile, p) :
            p \in {PathVirtualDVDGame} \cup {PathImage(n) : n \in ImageNames}}

InitImages ==
    /\ allowWrite = FALSE
    /\ faults = 0
    /\ disk = ImageDisk
    /\ inodes = ImageInodes
    /\ InitConn
    /\ viso = NULL
    /\ iso3k3y = NULL
    /\ eiso = NULL
    /\ payload = NULL
    /\ peer = NULL
    /\ scan = NULL
    /\ ret = NULL

NextImages ==
    \/ \E cmd \in ImageCommands : ClientSend(cmd)
    \/ ClientClose
    \/ ReadCommand
    \/ ReadEOF
    \/ ReadDeadline
    \/ ServeOpenDir
    \/ ServeOpenFile

SpecImages == InitImages /\ [][NextImages]_vars

(***************************************************************************)
(* Properties of the opens of images and game trees (SpecImages).          *)
(***************************************************************************)
\* the game tree under the root holds PS3_GAME/PARAM.SFO with a TITLE_ID
GameHasTitleID ==
    LET sfo == Under(PathGame) \o paramSFOPath IN
    /\ sfo \in DOMAIN disk
    /\ ~inodes[disk[sfo]].dir
    /\ sfoField(inodes[disk[sfo]].data, TitleIDField).ok

C21_Step ==
    (/\ HandlerReturns
     /\ cur = PathCommand(CmdOpenDir, PathVirtualPS3Game)
     /\ IsDirectory(PathGame)
     /\ GameHasTitleID) =>
        Written = Tagged(SendOpenDirResult(TRUE), nread)

\* C21: for a directory GAME1 under the root that contains
\* PS3_GAME/PARAM.SFO with a TITLE_ID, OPEN_DIR("/***PS3***/GAME1") is
\* answered 0.
C21_OpenVirtualDir == [][C21_Step]_vars

\* p names a regular file with the extension .iso, in any case, that lies
\* under a directory named PS3ISO, in any case
IsImage(p) ==
    /\ p.abs
    /\ p.comps # <<>>
    /\ p.comps[1] \notin {MaskDVD, MaskPS3}
    /\ ToLower(Ext(p)) = isoExt
    /\ \E i \in DOMAIN p.comps : ToLower(p.comps[i]) = ps3isoDir
    /\ Under(p) \in DOMAIN disk
    /\ ~inodes[disk[Under(p)]].dir

\* the bytes of the image p
ImageData(p) == inodes[disk[Under(p)]].data

\* the places of the key file of the image p: beside it, and under REDKEY
KeyPlaces(p) ==
    {RootPath \o WithDkeyExt(p.comps, Ext(p)),
     RootPath \o [WithDkeyExt(p.comps, Ext(p))
                     EXCEPT ![ps3IsoIdx(p.comps)] = redkeyDir]}

\* the handles opened by the step
OpenedByStep == (Len(handles) + 1)..Len(handles')

C27_Step ==
    (/\ HandlerReturns
     /\ cur.op = CmdOpenFile
     /\ IsImage(cur.path)
     /\ KeyPlaces(cur.path) \cap DOMAIN disk = {}) =>
        LET mark == SubSeq(ImageData(cur.path), MaskedDataBegin + 1,
                           MaskedDataBegin + WatermarkSize)
        IN  /\ Len(handles') = Len(handles) + 1
            /\ handles'[Len(handles')].ino = disk[Under(cur.path)]
            /\ (Len(ImageData(cur.path)) < MaskedDataEnd
                    \/ mark \notin {EncWatermark, DecWatermark}) =>
                  /\ Written = Tagged(SendOpenFileResult(
                                 FileInfo(inodes[disk[Under(cur.path)]],
                                          Last(cur.path.comps))), nread)
                  /\ State'.ROFile = Len(handles')
                  /\ handles'[Len(handles')].open
                  /\ handles'[Len(handles')].wrap = <<>>
            /\ (/\ Len(ImageData(cur.path)) >= MaskedDataEnd
                /\ mark \in {EncWatermark, DecWatermark}
                /\ handles'[Len(handles')].open) =>
                  Last(handles'[Len(handles')].wrap) = "ISO3k3y"
            /\ pc' = "read"

HeaderMalformed(data) ==
    LET count == be32(data, 0)
        start(i) == be32(data, 8 * i)
        end(i) == be32(data, 8 * i + 4)
    IN  \/ count < 2
        \/ start(1) # 0
        \/ \E i \in 1..count : end(i) <= start(i)
        \/ \E i \in 2..count : start(i) < end(i - 1)

\* a key file holds a key: 32 hexadecimal digits
HoldsKey(data) ==
    /\ Len(data) >= 2 * encryptionKeySize
    /\ \A i \in 1..(2 * encryptionKeySize) :
           data[i] \in (48..57) \cup (97..102) \cup (65..70)

\* a key is found for the image p: the first of its places that exists
\* holds one
KeyFound(p) ==
    \E q \in KeyPlaces(p) \cap DOMAIN disk :
        /\ ~inodes[disk[q]].dir
        /\ HoldsKey(inodes[disk[q]].data)
        /\ q[2] = redkeyDir => KeyPlaces(p) \cap DOMAIN disk = {q}

C28_Step ==
    (/\ HandlerReturns
     /\ cur.op = CmdOpenFile
     /\ IsImage(cur.path)
     /\ KeyFound(cur.path)
     /\ Len(ImageData(cur.path)) >= 8 + 8 * be32(ImageData(cur.path), 0)
     /\ HeaderMalformed(ImageData(cur.path))) =>
        /\ Written = Tagged(SendOpenFileError, nread)
        /\ State'.ROFile = NULL
        /\ \E h \in OpenedByStep : handles'[h].ino = disk[Under(cur.path)]
        /\ \A h \in OpenedByStep :
               ~handles'[h].open /\ handles'[h].closes = 1
        /\ pc' = "read"
        /\ ~sockClosed'

\* C28: when a key file is found for an image whose region header violates
\* an invariant checked at open time (region_count < 2, regions[0].start
\* not 0, a region with end <= start, or a start[i] < end[i-1]), the open
\* fails, the image file and the key file are closed, OPEN_FILE is answered
\* size -1, and the connection goes on to the next command.
C28_MalformedHeader == [][C28_Step]_vars

\* C28 witness: OPEN_FILE of the image with one region, then of the one
\* whose regions[0].start is 1, then of the one with an empty region, were
\* each answered size -1; every file opened on the way is closed.
C28_Witness ==
    /\ Completed(PathCommand(CmdOpenFile, PathImage(IsoName(StemEmptyRegion))))
    /\ done = 3
    /\ wire = Tagged(SendOpenFileError, 1) \o Tagged(SendOpenFileError, 2)
                \o Tagged(SendOpenFileError, 3)
    /\ handles[1].ino = disk[Under(PathImage(IsoName(StemOneRegion)))]
    /\ handles[3].ino = disk[Under(PathImage(IsoName(StemLateStart)))]
    /\ \A h \in DOMAIN handles : ~handles[h].open
    /\ State.ROFile = NULL

\* the watermarks "Encrypted 3K BLD" and "Dncrypted 3K BLD"
Encrypted3KBLD ==
    <<69, 110, 99, 114, 121, 112, 116, 101, 100, 32, 51, 75, 32, 66, 76, 68>>

Dncrypted3KBLD ==
    <<68, 110, 99, 114, 121, 112, 116, 101, 100, 32, 51, 75, 32, 66, 76, 68>>

C29_Step ==
    (/\ HandlerReturns
     /\ cur.op = CmdOpenFile
     /\ IsImage(cur.path)
     /\ KeyPlaces(cur.path) \cap DOMAIN disk = {}
     /\ Len(ImageData(cur.path)) >= MaskedDataEnd
     /\ ~HeaderMalformed(ImageData(cur.path))) =>
        LET mark == SubSeq(ImageData(cur.path), 3952 + 1, 3952 + 16)
            f == handles'[State'.ROFile]
        IN  /\ mark = Encrypted3KBLD =>
                /\ State'.ROFile # NULL
                /\ f.wrap = <<"EncryptedISO", "ISO3k3y">>
                /\ f.key = SubSeq(ImageData(cur.path), 3968 + 1, 3968 + 16)
            /\ mark = Dncrypted3KBLD =>
                /\ State'.ROFile # NULL
                /\ f.wrap = <<"ISO3k3y">>
                /\ f.key = <<>>

\* C29: an image whose 16 bytes at 0xF70 are "Encrypted 3K BLD" is opened
\* as an EncryptedISO keyed with the 16 bytes at 0xF80 under an ISO3k3y,
\* and an image whose 16 bytes at 0xF70 are "Dncrypted 3K BLD" as an
\* ISO3k3y alone, with no key.
C29_Watermarks == [][C29_Step]_vars

(***************************************************************************)
(* WRITE_FILE: the payload that follows the frame.                         *)
(***************************************************************************)
\* a step in which serveConn's ReadCommand returns a command
C32_Step == (pc = "read" /\ pc' = "handle") => Head(inbuf).k = "frame"

\* C32: whenever the server reads the next command, the bytes it takes are a
\* command frame: the payload a WRITE_FILE declared has been consumed before,
\* also when the write was rejected (writes not allowed or no write-only file
\* open), so payload bytes are never taken for a command frame.
C32_PayloadConsumed == [][C32_Step]_vars

C34_Step ==
    (/\ pc = "handle"
     /\ cur.op = CmdOpenFile
     /\ done' = done + 1
     /\ Len(wire') = Len(wire) + 1
     /\ wire'[Len(wire')].c = Chunk("openfile", <<-1, 0>>))
    => State'.ROFile = NULL

\* C34: after an OPEN_FILE that is answered size = -1 the session holds no
\* read-only file, so a following READ_FILE, READ_FILE_CRITICAL or
\* READ_CD_2048_CRITICAL finds no file open and does not read from the file
\* whose open was reported as failed.
C34_FailedOpenHoldsNothing == [][C34_Step]_vars

(***************************************************************************)
(* The virtual ISO: the bounds of a read.                                  *)
(***************************************************************************)
\* C35: a read of an open virtual ISO into a buffer of n bytes at an offset
\* off < totalSize does not write outside the buffer (it does not panic on
\* an index past the buffer) and reports at most min(n, totalSize - off)
\* bytes, so reading on from offset 0 ends at totalSize exactly.
C35_WithinBounds ==
    (/\ ret.op \in {"Read", "ReadAt"}
     /\ ~ret.closed
     /\ bLess(ret.off, viso.totalSize))
        => /\ ~ret.crash
           /\ ret.res.n <= ret.len
           /\ ~bLess(viso.totalSize, bAdd(ret.off, bytesOf(ret.res.n)))

(***************************************************************************)
(* The virtual ISO: its payload files.                                     *)
(***************************************************************************)
\* the sectors of the file fileItem hold a byte of the n bytes from off
Touches(fileItem, n, off) ==
    /\ bLess(off, sectorsBytes(fileItem.rLBA + sectors(fileItem.size)))
    /\ bLess(sectorsBytes(fileItem.rLBA), bAdd(off, bytesOf(n)))

\* A step opens a payload file only in a Read or ReadAt whose range reaches
\* the sectors of a file that is not open yet; and when the virtual ISO is
\* closed after the step, every handle it opened has been closed once.
C38_Step ==
    /\ \A h \in (Len(payload.H) + 1)..Len(payload'.H) :
          /\ ret'.op \in {"Read", "ReadAt"}
          /\ payload.file[payload'.H[h].item] = NULL
          /\ Touches(viso.files[payload'.H[h].item], ret'.len, ret'.off)
    /\ viso'.isClosed =>
          \A h \in DOMAIN payload'.H :
              ~payload'.H[h].open /\ payload'.H[h].closes = 1

\* C38: a virtual ISO has no payload file open when it is built and opens
\* one only when a read first touches it; once Close has returned, every
\* payload file handle it opened is closed, each exactly once, also after
\* Close was called again.
C38_PayloadFiles == payload.H = <<>> /\ [][C38_Step]_vars

\* C38 witness: a read opened the two files of the image, and Close was
\* called twice.
C38_Witness ==
    /\ viso.isClosed
    /\ payload.closeCalls = 2
    /\ Len(payload.H) = 2
    /\ \A h \in DOMAIN payload.H : payload.H[h].closes = 1

(***************************************************************************)
(* VirtualISO.scanDirectory, directory by directory, over host trees.      *)
(***************************************************************************)
\* depth of the host trees below the scanned root
MaxDepth == 2

\* the directories a host tree may hold, as paths below the scanned root
ScanDirSeq ==
    <<<<>>, <<NameA>>, <<NameB>>, <<NameA, NameA>>, <<NameA, NameB>>,
      <<NameB, NameA>>, <<NameB, NameB>>>>

ScanDirs == {ScanDirSeq[i] : i \in DOMAIN ScanDirSeq}

\* the host trees: the root, and with a directory its parent
ScanTrees ==
    {T \in SUBSET ScanDirs :
        /\ <<>> \in T
        /\ \A d \in T : Len(d) <= MaxDepth /\ (d # <<>> => Front(d) \in T)}

\* sizes of the file "n" that every directory of a tree holds; -1: no file
ScanFileSizes == {-1, 1, sectorSize + 1}

\* inode i is the directory ScanDirSeq[i], inode Len(ScanDirSeq) + i its file
ScanInodes(size) ==
    [i \in 1..(2 * Len(ScanDirSeq)) |->
        IF i <= Len(ScanDirSeq) THEN DirInode
        ELSE FileInode(zeroes(Max(size, 0)))]

ScanDisk(T, size) ==
    LET ino(d) == CHOOSE i \in DOMAIN ScanDirSeq : ScanDirSeq[i] = d
        paths == {RootPath \o d : d \in T}
                 \cup (IF size < 0 THEN {}
                       ELSE {RootPath \o Append(d, NameN) : d \in T})
    IN  [q \in paths |->
            IF SubSeq(q, 2, Len(q)) \in T THEN ino(SubSeq(q, 2, Len(q)))
            ELSE Len(ScanDirSeq) + ino(SubSeq(q, 2, Len(q) - 1))]

\* scanDirectory before its loop: the queue holds the root
NewScan ==
    [queue |-> <<<<>>>>, rootDir |-> <<>>, sizes |-> <<>>, files |-> <<>>,
     filesSizeSectors |-> 0, err |-> FALSE]

\* the files of a directory, added to those recorded so far with their rLBA
scannedFiles(sc, sizes) ==
    [sc EXCEPT !.sizes = sizes,
               !.files = scanDirectory(sizes, sc.files, sc.filesSizeSectors),
               !.filesSizeSectors =
                   IF sizes = <<>> THEN 0
                   ELSE Last(scanDirectory(sizes, sc.files, sc.filesSizeSectors)).rLBA
                        + sectors(Last(sizes))]

\* one turn of the loop of scanDirectory after viso.fs.Open(dir) returned o
\* for the last path of the queue: [scan, w]
processed(sc, o) ==
    IF ~o.ok THEN [scan |-> [sc EXCEPT !.err = TRUE], w |-> o.w]
    ELSE IF ~o.w.I[o.w.H[o.h].ino].dir
    THEN [scan |-> [sc EXCEPT !.err = TRUE],
          w |-> [o.w EXCEPT !.H = CloseHandle(@, o.h)]]
    ELSE [scan |-> [scannedFiles(sc, sc.sizes \o FileSizesIn(o.w, o.w.H[o.h].name))
                       EXCEPT !.queue = Front(sc.queue)
                                  \o SubDirs(o.w, o.w.H[o.h].name, Last(sc.queue)),
                              !.rootDir = Append(@, Last(sc.queue))],
          w |-> [o.w EXCEPT !.H = CloseHandle(@, o.h)]]

scanApply(r) ==
    /\ scan' = r.scan
    /\ handles' = r.w.H
    /\ touched' = r.w.T
    /\ UNCHANGED <<allowWrite, faults, disk, inodes, State, pc, cur, inbuf,
                   clientOpen, sent, script, nread, done, wire, sockClosed,
                   viso, iso3k3y, ret, eiso, payload, peer>>

\* scanDirectory: one turn of its loop
ScanDirectory ==
    /\ scan.queue # <<>>
    /\ ~scan.err
    /\ scanApply(processed(scan,
                           openGeneric(W, ClientPath(FALSE, Last(scan.queue)),
                                       FaultNone)))

\* a scan about to start on one of the host trees
InitScan ==
    /\ allowWrite = FALSE
    /\ faults = 0
    /\ \E T \in ScanTrees : \E size \in ScanFileSizes :
          /\ disk = ScanDisk(T, size)
          /\ inodes = ScanInodes(size)
    /\ InitConn
    /\ viso = NULL
    /\ iso3k3y = NULL
    /\ ret = NULL
    /\ eiso = NULL
    /\ payload = NULL
    /\ peer = NULL
    /\ scan = NewScan

NextScan == ScanDirectory

SpecScan == InitScan /\ [][NextScan]_vars

\* C39: the scan visits the directories breadth first, no directory before
\* one of smaller depth, and the files get their rLBA in the order of the
\* scan: the first 0, each next one the sector after the last sector of the
\* file before it.
C39_BreadthFirst ==
    /\ \A i, j \in DOMAIN scan.rootDir :
          i < j => Len(scan.rootDir[i]) <= Len(scan.rootDir[j])
    /\ \A k \in DOMAIN scan.files :
          scan.files[k].rLBA =
              IF k = 1 THEN 0
              ELSE scan.files[k - 1].rLBA + sectors(scan.files[k - 1].size)

(***************************************************************************)
(* EncryptedISO read on its own (pkg/fs/encrypted_iso.go): an image whose  *)
(* first sector holds the map of unencrypted regions, read with Read,     *)
(* ReadAt and Seek.                                                        *)
(***************************************************************************)

keyData1 ==
    <<56, 11, 207, 11, 83, 69, 91, 60, 120, 23, 171, 79, 163, 186, 144, 237>>

ivData1 ==
    <<105, 71, 71, 114, 175, 111, 218, 179, 66, 116, 58, 239, 170, 24, 98, 135>>

\* the images under the wrapper: the region map, and the size of the file.
\* The first leaves sector 1 and sectors 3..4 encrypted, the second sectors
\* 1..2 and ends inside its last sector.
EncImages ==
    {[header |-> RegionHeader(3, <<<<0, 1>>, <<2, 3>>, <<5, 6>>>>),
      size |-> 6 * sectorSize],
     [header |-> RegionHeader(2, <<<<0, 1>>, <<3, 4>>>>),
      size |-> 4 * sectorSize - 100]}

\* the byte stored at offset o of the image
StoredByte(img, o) ==
    IF o < Len(img.header) THEN img.header[o + 1]
    ELSE ((o * 7 + (o \div sectorSize) * 3) % 255) + 1

\* privateFile.Read at the file's position pos into a buffer of n bytes
encFileRead(img, n, pos) ==
    LET m == Min(n, Max(img.size - pos, 0)) IN
    [n |-> m,
     err |-> IF m = 0 /\ n > 0 THEN "EOF" ELSE "nil",
     data |-> [k \in 1..m |-> StoredByte(img, pos + k - 1)]]

\* privateFile.ReadAt: an error whenever the buffer is not filled
encFileReadAt(img, n, off) ==
    LET m == Min(n, Max(img.size - off, 0)) IN
    [n |-> m,
     err |-> IF m < n THEN "EOF" ELSE "nil",
     data |-> [k \in 1..m |-> StoredByte(img, off + k - 1)]]

\* sizeBytes.floorSectors and sizeBytes.sectors on plain byte counts
floorSectors(b) == b \div sectorSize

ceilSectors(b) == (b + sectorSize - 1) \div sectorSize

\* deriveISOKey: data1 encrypted in CBC mode under keyData1 and ivData1.  The
\* AES block function is represented by a keyed substitution of each byte.
deriveISOKey(data1Key) ==
    [t \in 1..encryptionKeySize |->
        (data1Key[t] + ivData1[t] + keyData1[t]) % 256]

\* the encrypted regions NewEncryptedISO keeps, were the slice made empty
encryptedRegionsGaps(data) ==
    [j \in 1..(be32(data, 0) - 1) |->
        [start |-> unencryptedRegion(data, j - 1).End,
         end |-> unencryptedRegion(data, j).Start]]

\* the encrypted regions NewEncryptedISO keeps: make([]region, Count-1)
\* followed by one append per gap
encryptedRegions(data) ==
    LET Count == be32(data, 0) IN
    [j \in 1..(Count - 1) |-> [start |-> 0, end |-> 0]]
    \o [j \in 1..(Count - 1) |->
          [start |-> unencryptedRegion(data, j - 1).End,
           end |-> unencryptedRegion(data, j).Start]]

\* the EncryptedISO NewEncryptedISO returns over img: cip is left unset
EncryptedISOOver(img, data1, clearRegions) ==
    [img |-> img,
     clearRegions |-> clearRegions,
     regionsHeaderSize |-> 8 + 8 * be32(img.header, 0),
     encryptedRegions |-> encryptedRegions(img.header),
     isoKey |-> deriveISOKey(data1),
     cip |-> NULL,
     iv |-> [t \in 1..encryptionKeySize |-> 0],
     pos |-> 0,
     offset |-> 0]

\* binary.BigEndian.PutUint32(iv[len(iv)-4:], sector)
ivForSector(iv, sector) ==
    [t \in 1..encryptionKeySize |->
        IF t = encryptionKeySize - 3 THEN (sector \div 16777216) % 256
        ELSE IF t = encryptionKeySize - 2 THEN (sector \div 65536) % 256
        ELSE IF t = encryptionKeySize - 1 THEN (sector \div 256) % 256
        ELSE IF t = encryptionKeySize THEN sector % 256
        ELSE iv[t]]

\* CBC decryption of span under key and iv: each block is put through the
\* block function and combined with the ciphertext block before it
CryptBlocks(key, iv, span) ==
    [t \in 1..Len(span) |->
        (span[t] + key[((t - 1) % encryptionKeySize) + 1] + 256
         - (IF t <= encryptionKeySize THEN iv[t]
            ELSE span[t - encryptionKeySize])) % 256]

\* EncryptedISO.clearRegionsData
clearRegionsData(e, start, data) ==
    IF start >= e.regionsHeaderSize \/ ~e.clearRegions THEN data
    ELSE [t \in 1..Len(data) |->
            IF t - 1 < e.regionsHeaderSize - start THEN 0 ELSE data[t]]

\* one pass of decryptData's inner loop, sector i of a buffer of capacity
\* cap holding data read at offset start: st is [data, iv, crash].  The
\* slice expression panics when its low bound is negative or its high bound
\* exceeds the capacity; with cloneCBC the decrypter is made from e.cip.
decryptSector(e, start, cap, cloneCBC, i, st) ==
    LET lo == i * sectorSize - start
        hi == (i + 1) * sectorSize - start
    IN  IF lo < 0 \/ hi > cap
        THEN [st EXCEPT !.crash = TRUE]
        ELSE IF cloneCBC /\ e.cip = NULL
        THEN [st EXCEPT !.crash = TRUE]
        ELSE LET n == Len(st.data)
                 span == SubSeq(st.data, lo + 1, Min(hi, n))
                         \o [t \in 1..(hi - Min(hi, n)) |-> 0]
                 iv == ivForSector(st.iv, i)
                 plain == CryptBlocks(e.isoKey, iv, span)
             IN  [data |-> SubSeq(st.data, 1, lo)
                           \o SubSeq(plain, 1, Min(hi, n) - lo)
                           \o SubSeq(st.data, hi + 1, n),
                  iv |-> IF cloneCBC THEN st.iv ELSE iv,
                  crash |-> FALSE]

RECURSIVE decryptSectors(_, _, _, _, _, _, _)
decryptSectors(e, start, cap, cloneCBC, i, endSector, st) ==
    IF i >= endSector \/ st.crash THEN st
    ELSE decryptSectors(e, start, cap, cloneCBC, i + 1, endSector,
                        decryptSector(e, start, cap, cloneCBC, i, st))

RECURSIVE decryptRegions(_, _, _, _, _, _, _)
decryptRegions(e, start, end, cap, cloneCBC, r, st) ==
    IF r > Len(e.encryptedRegions) \/ st.crash THEN st
    ELSE LET region == e.encryptedRegions[r] IN
         decryptRegions(e, start, end, cap, cloneCBC, r + 1,
            IF region.end <= ceilSectors(start) \/ region.start > ceilSectors(end)
            THEN st
            ELSE decryptSectors(e, start, cap, cloneCBC,
                                Max(region.start, floorSectors(start)),
                                Min(region.end, ceilSectors(end)), st))

\* EncryptedISO.decryptData on the bytes data, read at offset start into a
\* buffer of capacity cap: [data, iv, crash]
decryptData(e, start, data, cap, cloneCBC) ==
    decryptRegions(e, start, start + Len(data), cap, cloneCBC, 1,
                   [data |-> data, iv |-> e.iv, crash |-> FALSE])

\* what Read and ReadAt return after decryptData gave d
decrypted(r, d) ==
    [n |-> r.n, err |-> "nil", data |-> d.data, crash |-> d.crash, iv |-> d.iv]

\* EncryptedISO.Read with a buffer of n bytes, the file having returned r:
\* [n, err, data, crash, iv].  The buffer is make([]byte, n): its capacity
\* is its length.
readThrough(e, n, r) ==
    IF r.err # "nil" \/ r.n = 0 THEN r @@ [crash |-> FALSE, iv |-> e.iv]
    ELSE decrypted(r, decryptData(e, e.offset,
                                  clearRegionsData(e, e.offset, r.data),
                                  n, FALSE))

EncryptedISORead(e, n) == readThrough(e, n, encFileRead(e.img, n, e.pos))

\* EncryptedISO.ReadAt
readAtThrough(e, n, off, r) ==
    IF r.err # "nil" \/ r.n = 0 THEN r @@ [crash |-> FALSE, iv |-> e.iv]
    ELSE decrypted(r, decryptData(e, off, clearRegionsData(e, off, r.data),
                                  n, TRUE))

EncryptedISOReadAt(e, n, off) ==
    readAtThrough(e, n, off, encFileReadAt(e.img, n, off))

\* EncryptedISO.Seek(off, io.SeekStart)
EncryptedISOSeek(e, off) == [e EXCEPT !.pos = off, !.offset = off]

\* buffer lengths of the reads through the wrapper
EncLens == {0, 100, sectorSize, 2 * sectorSize}

\* offsets of the reads through the wrapper: sector boundaries and offsets
\* inside a sector, before, inside and after the encrypted regions
EncOffsets ==
    {0, 100, sectorSize, sectorSize + 100, 2 * sectorSize, 3 * sectorSize,
     3 * sectorSize + 100, 4 * sectorSize - 200, 6 * sectorSize}

\* EncryptedISO.Read
EncRead(n) ==
    /\ ~ret.crash
    /\ ret.calls < MaxCalls
    /\ ret' = Returned("Read", n, eiso.offset, FALSE, ret.calls + 1,
                       EncryptedISORead(eiso, n))
    /\ eiso' = [eiso EXCEPT !.pos = @ + ret'.res.n,
                            !.offset = @ + ret'.res.n,
                            !.iv = ret'.res.iv]
    /\ UNCHANGED <<connVars, viso, iso3k3y, payload, peer, scan>>

\* EncryptedISO.ReadAt
EncReadAt(n, off) ==
    /\ ~ret.crash
    /\ ret.calls < MaxCalls
    /\ ret' = Returned("ReadAt", n, off, FALSE, ret.calls + 1,
                       EncryptedISOReadAt(eiso, n, off))
    /\ UNCHANGED <<connVars, viso, iso3k3y, eiso, payload, peer, scan>>

\* EncryptedISO.Seek
EncSeek(off) ==
    /\ ~ret.crash
    /\ ret.calls < MaxCalls
    /\ ret' = Call("Seek", 0, off, SeekStart, FALSE, [pos |-> off, err |-> "nil"],
                   FALSE, ret.calls + 1)
    /\ eiso' = EncryptedISOSeek(eiso, off)
    /\ UNCHANGED <<connVars, viso, iso3k3y, payload, peer, scan>>

\* NewEncryptedISO over an image just opened, with either clearRegions
InitEnc ==
    /\ IdleConn
    /\ viso = NULL
    /\ iso3k3y = NULL
    /\ eiso \in {EncryptedISOOver(img, Data1Key(1), clear) :
                    img \in EncImages, clear \in BOOLEAN}
    /\ payload = NULL
    /\ peer = NULL
    /\ scan = NULL
    /\ ret = NoCall

NextEnc ==
    \/ \E n \in EncLens : EncRead(n)
    \/ \E n \in EncLens : \E off \in EncOffsets : EncReadAt(n, off)
    \/ \E off \in EncOffsets : EncSeek(off)

SpecEnc == InitEnc /\ [][NextEnc]_vars

\* C40: an EncryptedISO over a header of region_count unencrypted regions
\* holds exactly region_count - 1 encrypted ranges, the i-th being the gap
\* from the end of unencrypted region i-1 to the start of unencrypted region i
C40_EncryptedRanges ==
    LET Count == be32(eiso.img.header, 0) IN
    /\ Len(eiso.encryptedRegions) = Count - 1
    /\ \A i \in 1..Min(Count - 1, Len(eiso.encryptedRegions)) :
          /\ eiso.encryptedRegions[i].start
                = unencryptedRegion(eiso.img.header, i - 1).End
          /\ eiso.encryptedRegions[i].end
                = unencryptedRegion(eiso.img.header, i).Start

\* sector i lies in a gap between two consecutive unencrypted regions of the
\* region map data
EncryptedSector(data, i) ==
    \E j \in 1..(be32(data, 0) - 1) :
        /\ unencryptedRegion(data, j - 1).End <= i
        /\ i < unencryptedRegion(data, j).Start

\* the byte at offset o of the image with its sector decrypted
PlainByte(e, o) ==
    LET i == o \div sectorSize
        t == o - i * sectorSize + 1
    IN  (StoredByte(e.img, o) + e.isoKey[((t - 1) % encryptionKeySize) + 1] + 256
         - (IF t <= encryptionKeySize
            THEN ivForSector([u \in 1..encryptionKeySize |-> 0], i)[t]
            ELSE StoredByte(e.img, o - encryptionKeySize))) % 256

\* the bytes a read of n bytes at offset off is to return: the sectors that
\* are encrypted and lie within the range decrypted, the others as stored
\* (the region map zeroed when clearRegions is set)
ExpectedBytes(e, n, off) ==
    LET m == Min(n, Max(e.img.size - off, 0)) IN
    [k \in 1..m |->
        LET o == off + k - 1
            i == o \div sectorSize
        IN  IF /\ EncryptedSector(e.img.header, i)
               /\ i * sectorSize >= off
               /\ (i + 1) * sectorSize <= off + m
            THEN PlainByte(e, o)
            ELSE IF e.clearRegions /\ o < e.regionsHeaderSize THEN 0
            ELSE StoredByte(e.img, o)]

\* C31: a Read of any length at any offset through an EncryptedISO returns
\* exactly the requested bytes from that offset, every sector of an encrypted
\* region that lies within the range decrypted and all other bytes as stored
C31_ExactBytes ==
    ret.op = "Read" =>
        /\ ~ret.crash
        /\ ret.res.data = ExpectedBytes(eiso, ret.len, ret.off)

\* C37: ReadAt(off) returns the bytes that Seek(off) followed by Read returns
C37_ReadAtAsSeekRead ==
    (/\ ret.op = "ReadAt"
     /\ ~EncryptedISORead(EncryptedISOSeek(eiso, ret.off), ret.len).crash) =>
            /\ ~ret.crash
            /\ ret.res.data
                  = EncryptedISORead(EncryptedISOSeek(eiso, ret.off), ret.len).data

(***************************************************************************)
(* Two connections of one server (Server.Serve starts one serveConn per    *)
(* accepted connection).  The first is the connection of the variables     *)
(* State, pc, cur ...; the second is the record peer.  The host tree and   *)
(* the table of open files of the process are common to both.              *)
(***************************************************************************)
\* number of commands the second connection's client sends
MaxPeerCmds == 2

\* serveConn's ctx of a connection just accepted
NewPeer ==
    [State |-> InitState, pc |-> "read", cur |-> PlainCommand(0), nread |-> 0,
     done |-> 0, wire |-> <<>>, sockClosed |-> FALSE]

\* the commands the clients of the two connections send
ConnCommands ==
    {PathCommand(CmdOpenFile, PathB), PathCommand(CmdOpenFile, PathCloseFile),
     PathCommand(CmdOpenDir, PathA), PathCommand(CmdCreateFile, PathN),
     WriteCommand(ABC), ReadCommandOf(CmdReadFile, 3, 0, FALSE),
     ReadCommandOf(CmdReadFileCritical, 1, 0, FALSE)}

\* Server.handleCommand on a host whose Stat does not fail
handleCommand(S, w, cmd) ==
    IF cmd.op = CmdOpenDir THEN handleOpenDir(S, w, cmd, FaultNone)
    ELSE IF cmd.op = CmdReadDir THEN handleReadDir(S, w)
    ELSE IF cmd.op = CmdStatFile THEN handleStatFile(S, w, cmd)
    ELSE IF cmd.op = CmdOpenFile THEN handleOpenFile(S, w, cmd, FaultNone)
    ELSE IF cmd.op = CmdReadFile THEN handleReadFile(S, w, cmd)
    ELSE IF cmd.op = CmdReadFileCritical THEN handleReadFileCritical(S, w, cmd)
    ELSE IF cmd.op = CmdReadCD2048Critical THEN handleReadCD2048Critical(S, w, cmd)
    ELSE IF cmd.op = CmdReadDirEntry THEN handleReadDirEntry(S, w)
    ELSE IF cmd.op = CmdReadDirEntryV2 THEN handleReadDirEntryV2(S, w)
    ELSE IF cmd.op = CmdCreateFile THEN handleCreateFile(S, w, cmd)
    ELSE IF cmd.op = CmdWriteFile THEN handleWriteFile(S, w, cmd)
    ELSE IF cmd.op = CmdDeleteFile THEN handleDeleteFile(S, w, cmd)
    ELSE IF cmd.op = CmdMkdir THEN handleMkdir(S, w, cmd)
    ELSE IF cmd.op = CmdRmdir THEN handleRmdir(S, w, cmd)
    ELSE IF cmd.op = CmdGetDirSize THEN handleGetDirSize(S, w, cmd)
    ELSE unknownOpCode(S, w)

\* a server that keeps one session state for all its connections: the
\* command of the connection P is handled on the state S of the other
handleOnServerState(P, S, w) == handleCommand(S, w, P.cur)

\* serveConn of the connection P: s.handleCommand(opCode, ctx), ctx being
\* the Context serveConn made for this connection
handleOnOwnState(P, S, w) == handleCommand(P.State, w, P.cur)

\* the second connection: its client sends cmd and ReadCommand returns it
PeerRead(cmd) ==
    /\ pc # "crashed"
    /\ peer.pc = "read"
    /\ peer.nread < MaxPeerCmds
    /\ peer' = [peer EXCEPT !.cur = cmd, !.pc = "handle", !.nread = @ + 1]
    /\ UNCHANGED <<connVars, viso, iso3k3y, ret, eiso, payload, scan>>

\* the second connection: ReadCommand returns io.EOF or fails, serveConn
\* returns and its deferred conn.Close() and ctx.Close() run
PeerEOF ==
    /\ pc # "crashed"
    /\ peer.pc = "read"
    /\ peer' = [peer EXCEPT !.State = ContextClose(peer.State, handles).S,
                            !.pc = "closed", !.sockClosed = TRUE]
    /\ handles' = ContextClose(peer.State, handles).H
    /\ UNCHANGED <<allowWrite, faults, disk, inodes, State, pc, cur, inbuf,
                   clientOpen, sent, script, nread, done, wire, sockClosed,
                   touched, viso, iso3k3y, ret, eiso, payload, scan>>

\* the second connection after handleCommand: as Apply.  When the process
\* dies in the handler no serveConn of it runs any more.
PeerApply(res) ==
    /\ disk' = res.w.D
    /\ inodes' = res.w.I
    /\ touched' = res.w.T
    /\ IF res.crash
       THEN /\ peer' = [peer EXCEPT !.State = res.S, !.pc = "crashed"]
            /\ handles' = res.w.H
            /\ pc' = "crashed"
       ELSE IF res.err
       THEN /\ peer' = [peer EXCEPT !.State = ContextClose(res.S, res.w.H).S,
                                    !.pc = "closed", !.sockClosed = TRUE,
                                    !.done = @ + 1,
                                    !.wire = @ \o Tagged(res.out, peer.nread)]
            /\ handles' = ContextClose(res.S, res.w.H).H
            /\ pc' = pc
       ELSE /\ peer' = [peer EXCEPT !.State = res.S, !.pc = "read",
                                    !.done = @ + 1,
                                    !.wire = @ \o Tagged(res.out, peer.nread)]
            /\ handles' = res.w.H
            /\ pc' = pc
    /\ UNCHANGED <<allowWrite, faults, State, cur, inbuf, clientOpen, sent,
                   script, nread, done, wire, sockClosed,
                   viso, iso3k3y, ret, eiso, payload, scan>>

\* the second connection: serveConn calls handleCommand
PeerServe ==
    /\ pc # "crashed"
    /\ peer.pc = "handle"
    /\ PeerApply(handleOnOwnState(peer, State, W))

\* two connections just accepted
InitConns ==
    /\ allowWrite \in BOOLEAN
    /\ faults = 0
    /\ disk = InitDisk
    /\ inodes = InitInodes
    /\ InitConn
    /\ viso = NULL
    /\ iso3k3y = NULL
    /\ eiso = NULL
    /\ payload = NULL
    /\ peer = NewPeer
    /\ scan = NULL
    /\ ret = NULL

NextConns ==
    \/ \E cmd \in ConnCommands : ClientSend(cmd)
    \/ ClientClose
    \/ ReadCommand
    \/ ReadEOF
    \/ ServeOpenDir
    \/ ServeOpenFile
    \/ ServeReadFile
    \/ ServeReadFileCritical
    \/ ServeCreateFile
    \/ ServeWriteFile
    \/ \E cmd \in ConnCommands : PeerRead(cmd)
    \/ PeerEOF
    \/ PeerServe

SpecConns == InitConns /\ [][NextConns]_vars

\* the handles held in the slots of S are as they were
HeldUntouched(S) == \A h \in Held(S) : handles'[h] = handles[h]

C36_Step ==
    /\ Held(State') \cap Held(peer'.State) = {}
    /\ peer' # peer =>
          /\ State' = State
          /\ HeldUntouched(State)
          /\ <<cur, nread, done, wire, sockClosed>>' = <<cur, nread, done, wire, sockClosed>>
    /\ peer' = peer => HeldUntouched(peer.State)

\* C36: under any interleaving of two connections no handle is held by both
\* sessions, a step of one connection leaves the other's session state
\* (CwdHandle, ROFile, WOFile, CDSectorSize) as it was, and the files the
\* other session holds stay open at their positions
C36_Isolation == [][C36_Step]_vars

\* C36 witness: both connections have opened "/b", each holds a handle of
\* its own, and the second connection has then closed its file with
\* OPEN_FILE("/CLOSEFILE") while the first still holds its own, open
C36_Witness ==
    /\ State.ROFile # NULL
    /\ handles[State.ROFile].open
    /\ handles[State.ROFile].name = Under(PathB)
    /\ peer.pc = "read"
    /\ peer.done = 2
    /\ peer.cur = PathCommand(CmdOpenFile, PathCloseFile)
    /\ peer.State.ROFile = NULL
    /\ Len(handles) = 2
    /\ \E h \in DOMAIN handles :
          /\ h # State.ROFile
          /\ handles[h].name = Under(PathB)
          /\ handles[h].closes = 1

====
